---- MODULE Spec2Model ----
(***************************************************************************)
(* Review-policy market simulation: the review store and its exposure      *)
(* policies (Restaurant.get_sorted_reviews), the customer's daily choice   *)
(* (bounded attention, optional investigation) and the skepticism          *)
(* assessors of the engine variants.                                       *)
(*                                                                         *)
(* Units.  Star values are Python floats; the model keeps them exactly as  *)
(* integers in quarter stars (5.0 stars = 20, the +0.5 boost = 2, the      *)
(* +0.25 boost = 1).  The repeat-customer skepticism score is a float in   *)
(* [0, 1]; the model keeps it exactly in units of 1/200 (0.3 = 60).        *)
(* A date is the string the code stores: a sequence of character codes,    *)
(* digits 0..9 and letters > 9.  strftime writes fixed-width, zero-padded  *)
(* fields, modelled by a 3-digit day number; strptime reads a day number   *)
(* with or without its leading zeros.                                      *)
(***************************************************************************)
EXTENDS Integers, Sequences, FiniteSets, TLC

VARIABLES
    initial_reviews,   \* Restaurant.initial_reviews : seed reviews, in file order
    reviews,           \* Restaurant.reviews : reviews generated during the run
    review_policy,     \* Restaurant.review_policy
    customer,          \* the customer being assessed: personality, criticality
    shown,             \* the review sample given to a skepticism assessor
    ret,               \* the value returned by the last operation
    config,            \* the run's engine and Config: customers per day, days
    seed_file,         \* per vendor: does its seed-review file exist
    pc,                \* the orchestrator's position in the run
    day,               \* the current simulation day (1-based)
    todo,              \* customers of the current day still to be processed
    cday,              \* the customer-day in progress: its trace and outcome
    customers,         \* self.customers: each customer with its experiences
    vendor,            \* per vendor: revenue, visit tracking and review store
    error,             \* the exception that reached the orchestrator, if any
    daily_results,     \* repeat_customers: self.daily_results, one entry per day
    day_stats          \* repeat_customers: the day totals of _simulate_day

dayvars == <<daily_results, day_stats>>

runvars == <<config, seed_file, pc, day, todo, cday, customers, vendor, error,
             daily_results, day_stats>>

vars == <<initial_reviews, reviews, review_policy, customer, shown, ret,
          config, seed_file, pc, day, todo, cday, customers, vendor, error,
          daily_results, day_stats>>

\* ------------------------------------------------------------------ bounds
MaxSeed == 1
MaxGenerated == 2
MaxLimit == 3
MaxShown == 5
MaxDayGenerated == 4

\* --------------------------------------------------------------- constants
LIMITED_ATTENTION == 3
SKEPTICAL_REVIEWS == 3
CONF_LIMITED_ATTENTION == 3
CONF_SKEPTICAL_REVIEWS == 3
RESTAURANT_A_RATING == 45
\* reviews_orientation: a_reviews[:5] and a_reviews_shown[:10]
ORIENTATION_LIMITED_ATTENTION == 5
ORIENTATION_TOTAL_CAP == 10

\* datetime.now(): the wall-clock day, as a day number
Now == 500

\* ------------------------------------------------------------------- dates
Min(a, b) == IF a < b THEN a ELSE b
Max(a, b) == IF a > b THEN a ELSE b
Abs(a) == IF a < 0 THEN 0 - a ELSE a

\* strftime("%Y-%m-%d %H:%M:%S"): fixed width, most significant field first
strftime(d) == <<d \div 100, (d \div 10) % 10, d % 10>>

\* a date string strptime rejects (ValueError)
BadDate == <<11, 10>>

\* strptime accepts a field with or without its leading zeros
IsParseable(s) == Len(s) \in 1..3 /\ \A i \in 1..Len(s) : s[i] \in 0..9

\* strptime: the day number a string denotes (callers catch ValueError by
\* testing IsParseable first)
strptime(s) ==
    IF Len(s) = 1 THEN s[1]
    ELSE IF Len(s) = 2 THEN s[1] * 10 + s[2]
    ELSE s[1] * 100 + s[2] * 10 + s[3]

\* a date string written without leading zeros: day 90
UnpaddedDate == <<9, 0>>

\* Python's str comparison a < b: lexicographic on the characters
StrLess(a, b) ==
    \E i \in 1..Len(b) :
        /\ \A j \in 1..(i - 1) : j <= Len(a) /\ a[j] = b[j]
        /\ (i > Len(a) \/ a[i] < b[i])

\* ---------------------------------------------------------------- sorting
\* A sort key is the pair <<number, string>>; Python compares tuples
\* field by field.
KeyLess(k1, k2) == k1[1] < k2[1] \/ (k1[1] = k2[1] /\ StrLess(k1[2], k2[2]))

\* The sort operators bind each operand once (s \in {operand}) before they
\* use it: an operand that is itself a sort is then evaluated one time.

\* place pair p = <<key, review>> in the descending list s, after every
\* element whose key is not smaller
RECURSIVE InsertDesc(_, _)
InsertDesc(p, list) ==
    CHOOSE r \in { IF s = <<>> THEN <<p>>
                   ELSE IF KeyLess(Head(s)[1], p[1]) THEN <<p>> \o s
                   ELSE <<Head(s)>> \o InsertDesc(p, Tail(s)) : s \in {list} } : TRUE

\* the keyed pairs in descending key order, equal keys in their input order
RECURSIVE SortPairsDesc(_)
SortPairsDesc(pairs) ==
    CHOOSE r \in { IF ps = <<>> THEN <<>>
                   ELSE InsertDesc(ps[Len(ps)], SortPairsDesc(SubSeq(ps, 1, Len(ps) - 1)))
                   : ps \in {pairs} } : TRUE

\* the ascending counterpart of InsertDesc (sorted without reverse=True)
RECURSIVE InsertAsc(_, _)
InsertAsc(p, list) ==
    CHOOSE r \in { IF s = <<>> THEN <<p>>
                   ELSE IF KeyLess(p[1], Head(s)[1]) THEN <<p>> \o s
                   ELSE <<Head(s)>> \o InsertAsc(p, Tail(s)) : s \in {list} } : TRUE

RECURSIVE SortPairsAsc(_)
SortPairsAsc(pairs) ==
    CHOOSE r \in { IF ps = <<>> THEN <<>>
                   ELSE InsertAsc(ps[Len(ps)], SortPairsAsc(SubSeq(ps, 1, Len(ps) - 1)))
                   : ps \in {pairs} } : TRUE

Unkey(ps) == [i \in 1..Len(ps) |-> ps[i][2]]

\* mutant: sorted(rs, key=lambda x: x.stars), reverse=True forgotten
SortedByStarsAscending(rs) ==
    Unkey(SortPairsAsc([i \in 1..Len(rs) |-> <<<<rs[i].stars, <<>>>>, rs[i]>>]))

\* sorted(rs, key=lambda x: x.stars, reverse=True)
SortedByStarsReverse(rs) ==
    Unkey(SortPairsDesc([i \in 1..Len(rs) |-> <<<<rs[i].stars, <<>>>>, rs[i]>>]))

\* sorted(rs, key=lambda x: x.date, reverse=True)
SortedByDateReverse(rs) ==
    Unkey(SortPairsDesc([i \in 1..Len(rs) |-> <<<<0, rs[i].date>>, rs[i]>>]))

\* seq[:n] for n >= 0
Take(s, n) == SubSeq(s, 1, Min(n, Len(s)))

\* ------------------------------------------------------------ review store
get_all_reviews(init, revs) == init \o revs

get_review_count(init, revs) == Len(get_all_reviews(init, revs))

RECURSIVE SumStars(_)
SumStars(rs) == IF rs = <<>> THEN 0 ELSE Head(rs).stars + SumStars(Tail(rs))

\* the boosted rating of one review: +0.5 within 30 days, +0.25 within 90,
\* capped at 5.0; an unparseable date gets no boost
BoostedRating(r) ==
    IF ~IsParseable(r.date) THEN r.stars
    ELSE LET d == strptime(r.date)
             b == IF d >= Now - 30 THEN r.stars + 2
                  ELSE IF d >= Now - 90 THEN r.stars + 1
                  ELSE r.stars
         IN  Min(b, 20)

\* boost, then sort by (boosted rating, date) descending
BoostSort(rs) ==
    Unkey(SortPairsDesc([i \in 1..Len(rs) |-> <<<<BoostedRating(rs[i]), rs[i].date>>, rs[i]>>]))

\* Restaurant._get_recent_quality_boost_reviews: iterates self.reviews
_get_recent_quality_boost_reviews(init, revs) == BoostSort(revs)

\* mutant: random.choices(rs, k=k), a draw with replacement
RandomChoices(rs, k) ==
    { [i \in 1..k |-> rs[f[i]]] : f \in [1..k -> 1..Len(rs)] }

\* random.sample(rs, k): k reviews at distinct positions, in any order
RandomSample(rs, k) ==
    { [i \in 1..k |-> rs[f[i]]] :
        f \in { g \in [1..k -> 1..Len(rs)] :
                  \A i, j \in 1..k : i # j => g[i] # g[j] } }

\* mutant: every policy draws its sample at random
RandomReviews(init, revs, policy, limit) ==
    IF Len(get_all_reviews(init, revs)) <= limit
        THEN { get_all_reviews(init, revs) }
        ELSE RandomSample(get_all_reviews(init, revs), limit)

\* Restaurant.get_sorted_reviews(limit): the set of lists it may return
get_sorted_reviews(init, revs, policy, limit) ==
    LET all_reviews == get_all_reviews(init, revs) IN
    IF policy = "highest_rating"
        THEN { Take(SortedByStarsReverse(all_reviews), limit) }
    ELSE IF policy = "latest" \/ policy = "newest_first"
        THEN { Take(SortedByDateReverse(all_reviews), limit) }
    ELSE IF policy = "recent_quality_boost"
        THEN { Take(_get_recent_quality_boost_reviews(init, revs), limit) }
    ELSE IF policy = "random"
        THEN IF Len(all_reviews) <= limit
                THEN { all_reviews }
                ELSE RandomSample(all_reviews, limit)
    ELSE { Take(SortedByDateReverse(all_reviews), limit) }

\* ------------------------------------------------- skepticism: shared parts
get_overall_rating(init, revs) ==
    LET all_reviews == get_all_reviews(init, revs) IN
    IF all_reviews = <<>> THEN [num |-> 0, den |-> 1]
    ELSE [num |-> SumStars(all_reviews), den |-> Len(all_reviews)]

\* sum(1 for r in reviews if r['stars'] == v)
CountStars(rs, v) == Cardinality({ i \in 1..Len(rs) : rs[i].stars = v })

\* sum(1 for r in reviews if r['stars'] <= v)
CountStarsAtMost(rs, v) == Cardinality({ i \in 1..Len(rs) : rs[i].stars <= v })

\* set(r['stars'] for r in reviews)
unique_ratings(rs) == { rs[i].stars : i \in 1..Len(rs) }

\* every date of the list parses (no ValueError from strptime)
AllParseable(rs) == \A i \in 1..Len(rs) : IsParseable(rs[i].date)

most_recent_date(rs) ==
    CHOOSE d \in { strptime(rs[i].date) : i \in 1..Len(rs) } :
        \A i \in 1..Len(rs) : strptime(rs[i].date) <= d

oldest_date(rs) ==
    CHOOSE d \in { strptime(rs[i].date) : i \in 1..Len(rs) } :
        \A i \in 1..Len(rs) : strptime(rs[i].date) >= d

\* a list of signals is a list of <<concern, points>> in the order the code
\* appends them
Signal(concern, points) == [concern |-> concern, points |-> points]

RECURSIVE SumPoints(_)
SumPoints(sigs) == IF sigs = <<>> THEN 0 ELSE Head(sigs).points + SumPoints(Tail(sigs))

Concerns(sigs) == [i \in 1..Len(sigs) |-> sigs[i].concern]

\* a trait of the list is a substring of the personality; the model keeps a
\* personality as the set of trait words it contains
HasTrait(personality, traits) == personality \cap traits # {}

\* ------------------------------- reviews_orientation: _assess_skepticism
\* the five-star branch: the > 0.8 test comes first
OrientationFiveStarSignals(rs) ==
    LET five_star_count == CountStars(rs, 20) IN
    IF 10 * five_star_count > 8 * Len(rs)
        THEN << Signal("too_many_perfect_ratings", 2) >>
    ELSE IF 10 * five_star_count > 9 * Len(rs)
        THEN << Signal("suspiciously_perfect_ratings", 3) >>
    ELSE << >>

\* ----------------------------- research_implementation: _assess_skepticism
\* simulation_start_date + timedelta(days=current_simulation_day)
current_sim_date == Now

\* mutant: no separate branch for a ratio above 0.9
FiveStarSignalsOneBranch(rs) ==
    IF 10 * CountStars(rs, 20) > 8 * Len(rs)
        THEN << Signal("too_many_perfect_ratings", 2) >>
        ELSE << >>

FiveStarSignals(rs) ==
    LET five_star_count == CountStars(rs, 20) IN
    IF 10 * five_star_count > 9 * Len(rs)
        THEN << Signal("suspiciously_perfect_ratings", 3) >>
    ELSE IF 10 * five_star_count > 8 * Len(rs)
        THEN << Signal("too_many_perfect_ratings", 2) >>
    ELSE << >>

NoNegativeSignals(rs) ==
    IF CountStarsAtMost(rs, 8) = 0 /\ Len(rs) >= 5
        THEN << Signal("no_negative_reviews", 1) >>
        ELSE << >>

RecencySignals(rs) ==
    IF ~AllParseable(rs) THEN << Signal("date_parsing_issues", 1) >>
    ELSE
      LET six_months_ago == current_sim_date - 180
          one_year_ago == current_sim_date - 365
          date_range == most_recent_date(rs) - oldest_date(rs)
      IN  (IF most_recent_date(rs) < one_year_ago
               THEN << Signal("very_outdated_reviews", 3) >>
           ELSE IF most_recent_date(rs) < six_months_ago
               THEN << Signal("outdated_reviews", 1) >>
           ELSE << >>)
          \o
          (IF Len(rs) >= 5 /\ date_range <= 7
               THEN << Signal("suspicious_review_clustering", 2) >>
               ELSE << >>)

SampleSizeSignals(rs) ==
    IF Len(rs) < 3 THEN << Signal("too_few_reviews", 1) >> ELSE << >>

DiversitySignals(rs) ==
    IF Cardinality(unique_ratings(rs)) = 1
        THEN << Signal("no_rating_diversity", 2) >>
    ELSE IF Cardinality(unique_ratings(rs)) <= 2
        THEN << Signal("limited_rating_diversity", 1) >>
    ELSE << >>

skeptical_personalities ==
    {"analytical", "meticulous", "discerning", "strict", "picky", "reserved",
     "thoughtful", "critical", "demanding", "perfectionist", "skeptical",
     "cautious", "exacting", "uncompromising", "fastidious", "particular",
     "discriminating", "selective"}

trusting_personalities ==
    {"easy-going", "easygoing", "relaxed", "carefree", "cheerful", "optimistic",
     "friendly", "outgoing", "open-minded", "balanced", "reasonable",
     "fair-minded"}

personality_modifier(c) ==
    IF HasTrait(c.personality, skeptical_personalities) THEN 2
    ELSE IF HasTrait(c.personality, trusting_personalities) THEN 0 - 1
    ELSE 0

\* mutant: the easy and the critical adjustments exchanged
CriticalityModifierSwapped(c) ==
    IF c.criticality = "easy" THEN 3
    ELSE IF c.criticality = "critical" THEN 0 - 2
    ELSE 0

criticality_modifier(c) ==
    IF c.criticality = "easy" THEN 0 - 2
    ELSE IF c.criticality = "critical" THEN 3
    ELSE 0

\* a rating is an exact fraction num/den of quarter stars
Rating(num, den) == [num |-> num, den |-> den]

\* sum(r.stars for r in rs) / len(rs) if rs else 0
reviews_read_rating(rs) ==
    IF rs = <<>> THEN Rating(0, 1) ELSE Rating(SumStars(rs), Len(rs))

\* |a - b| >= q quarter stars / scale   (q/scale is the threshold)
AbsDiffAtLeast(a, b, q, scale) ==
    scale * Abs(a.num * b.den - b.num * a.den) >= q * a.den * b.den

\* _compare_ratings: the skepticism triggers, in the order they are appended,
\* and the absolute difference
_compare_ratings(read_rating, overall_rating, read_count, total_count) ==
    LET higher == read_rating.num * overall_rating.den
                    > overall_rating.num * read_rating.den
        discrepancy ==
            IF AbsDiffAtLeast(read_rating, overall_rating, 2, 1)
               /\ AbsDiffAtLeast(read_rating, overall_rating, 4, 1)
                THEN IF higher THEN << "suspiciously_high_sample" >>
                               ELSE << "suspiciously_low_sample" >>
                ELSE << >>
        small_sample ==
            IF total_count > 0 /\ 10 * read_count < total_count /\ total_count > 20
               /\ AbsDiffAtLeast(read_rating, overall_rating, 12, 10)
                THEN << "small_sample_with_discrepancy" >>
                ELSE << >>
        extreme ==
            IF read_rating.num >= 18 * read_rating.den
               /\ overall_rating.num <= 14 * overall_rating.den
                THEN << "cherry_picked_positive_reviews" >>
            ELSE IF read_rating.num <= 10 * read_rating.den
                    /\ overall_rating.num >= 16 * overall_rating.den
                THEN << "cherry_picked_negative_reviews" >>
            ELSE << >>
    IN  [ skepticism_triggers |-> discrepancy \o small_sample \o extreme,
          moderate |-> /\ AbsDiffAtLeast(read_rating, overall_rating, 2, 1)
                       /\ ~AbsDiffAtLeast(read_rating, overall_rating, 4, 1) ]

\* no rating comparison passed (rating_comparison=None)
None == [ none |-> TRUE ]

TriggerSignal(trigger) ==
    IF trigger = "suspiciously_high_sample" THEN Signal("rating_discrepancy_high", 2)
    ELSE IF trigger = "suspiciously_low_sample" THEN Signal("rating_discrepancy_low", 2)
    ELSE IF trigger = "cherry_picked_positive_reviews" THEN Signal("cherry_picked_positive", 3)
    ELSE IF trigger = "cherry_picked_negative_reviews" THEN Signal("cherry_picked_negative", 3)
    ELSE Signal("small_sample_discrepancy", 1)

RatingComparisonSignals(rating_comparison) ==
    IF rating_comparison = None THEN << >>
    ELSE [ i \in 1..Len(rating_comparison.skepticism_triggers) |->
             TriggerSignal(rating_comparison.skepticism_triggers[i]) ]
         \o
         (IF rating_comparison.moderate /\ rating_comparison.skepticism_triggers = << >>
              THEN << Signal("moderate_rating_discrepancy", 1) >>
              ELSE << >>)

\* mutant: the sum of the points and modifiers without the max(0, ...)
UnflooredScore(total) == total

\* final_score = max(0, ...)
final_score(total) == Max(0, total)

\* the level, the chance to investigate and the confidence impact (in
\* hundredths) for a final score; will_investigate is a random draw
\* unless the level is none
LevelOutcomes(score) ==
    IF score >= 5
        THEN { [level |-> "high", will_investigate |-> w, confidence_impact |-> 0 - 30]
                 : w \in BOOLEAN }
    ELSE IF score >= 3
        THEN { [level |-> "medium", will_investigate |-> w, confidence_impact |-> 0 - 15]
                 : w \in BOOLEAN }
    ELSE IF score >= 1
        THEN { [level |-> "low", will_investigate |-> w, confidence_impact |-> 0 - 5]
                 : w \in BOOLEAN }
    ELSE { [level |-> "none", will_investigate |-> FALSE, confidence_impact |-> 0] }

\* the signals of steps 1-4, in the order the code appends them
PatternSignals(rs) ==
    FiveStarSignals(rs) \o NoNegativeSignals(rs) \o RecencySignals(rs)
      \o SampleSizeSignals(rs) \o DiversitySignals(rs)

\* skepticism_score + personality_modifier + criticality_modifier
\*   + rating_comparison_modifier
raw_score(c, rs, rating_comparison) ==
    SumPoints(PatternSignals(rs)) + personality_modifier(c) + criticality_modifier(c)
      + SumPoints(RatingComparisonSignals(rating_comparison))

\* research_implementation _assess_skepticism: the set of dicts it may return
_assess_skepticism(c, rs, rating_comparison) ==
    IF rs = << >>
        THEN { [ level |-> "none", concerns |-> << >>, will_investigate |-> FALSE,
                 confidence_impact |-> 0 ] }
    ELSE
      LET pattern == PatternSignals(rs)
          comparison == RatingComparisonSignals(rating_comparison)
          score == final_score(raw_score(c, rs, rating_comparison))
      IN  { [ level |-> o.level,
              concerns |-> Concerns(pattern \o comparison),
              will_investigate |-> o.will_investigate,
              confidence_impact |-> o.confidence_impact,
              score |-> score,
              personality_modifier |-> personality_modifier(c),
              criticality_modifier |-> criticality_modifier(c),
              rating_comparison_modifier |-> SumPoints(comparison) ]
            : o \in LevelOutcomes(score) }

\* ------------------------------- reviews_orientation: _assess_skepticism
OrientationRecencySignals(rs) ==
    IF ~AllParseable(rs) THEN << Signal("date_parsing_issues", 1) >>
    ELSE IF most_recent_date(rs) < Now - 365
        THEN << Signal("very_outdated_reviews", 3) >>
    ELSE IF most_recent_date(rs) < Now - 183
        THEN << Signal("outdated_reviews", 1) >>
    ELSE << >>

OrientationDiversitySignals(rs) ==
    IF Cardinality(unique_ratings(rs)) = 1
        THEN << Signal("no_rating_diversity", 2) >>
        ELSE << >>

orientation_skeptical_personalities ==
    {"analytical", "meticulous", "discerning", "strict", "picky", "reserved",
     "thoughtful"}

orientation_trusting_personalities ==
    {"easy-going", "easygoing", "relaxed", "carefree", "cheerful", "optimistic",
     "friendly", "outgoing"}

orientation_personality_modifier(c) ==
    IF HasTrait(c.personality, orientation_skeptical_personalities) THEN 2
    ELSE IF HasTrait(c.personality, orientation_trusting_personalities) THEN 0 - 1
    ELSE 0

\* reviews_orientation _assess_skepticism: the set of outcomes.  The two
\* datetime.replace calls that compute six_months_ago (about 183 days back)
\* and one_year_ago stand outside the try block and raise ValueError on the
\* wall-clock days whose target day does not exist (31 August, 29 February).
orientation_assess_skepticism(c, rs) ==
    IF rs = << >>
        THEN { [ level |-> "none", concerns |-> << >>, will_investigate |-> FALSE,
                 confidence_impact |-> 0 ] }
    ELSE
      LET signals == OrientationFiveStarSignals(rs) \o OrientationRecencySignals(rs)
                       \o SampleSizeSignals(rs) \o OrientationDiversitySignals(rs)
          score == Max(0, SumPoints(signals) + orientation_personality_modifier(c))
      IN  { [ level |-> o.level,
              concerns |-> Concerns(signals),
              will_investigate |-> o.will_investigate,
              confidence_impact |-> o.confidence_impact,
              score |-> score,
              personality_modifier |-> orientation_personality_modifier(c) ]
            : o \in LevelOutcomes(score) }
          \cup { [raised |-> "ValueError"] }

\* ------------------- vertical_differentiation: _should_investigate_further
\* the set of outcomes: the bool it returns, or the ValueError that leaves
\* it.  The function has no try block: after the five-star test,
\* current_date.replace(year=...) raises on 29 February of the wall clock,
\* and strptime raises on a date that does not parse.
_should_investigate_further(rs) ==
    IF rs = << >> THEN { [value |-> FALSE] }
    ELSE IF 10 * CountStars(rs, 20) > 8 * Len(rs) THEN { [value |-> TRUE] }
    ELSE { [raised |-> "ValueError", at |-> "replace"] }
           \cup (IF ~AllParseable(rs)
                     THEN { [raised |-> "ValueError", at |-> "strptime"] }
                     ELSE { [value |-> most_recent_date(rs) < Now - 365] })

\* --------------------------------- repeat_customers: _calculate_skepticism
RECURSIVE SumSquares(_)
SumSquares(rs) ==
    IF rs = <<>> THEN 0 ELSE Head(rs).stars * Head(rs).stars + SumSquares(Tail(rs))

\* base_threshold and personality_modifier (as the fraction num/den) for a
\* criticality
CriticalityProfile(criticality) ==
    IF criticality = "easy"
        THEN [base_threshold |-> 140, modifier_num |-> 1, modifier_den |-> 2]
    ELSE IF criticality = "critical"
        THEN [base_threshold |-> 60, modifier_num |-> 3, modifier_den |-> 2]
    ELSE [base_threshold |-> 100, modifier_num |-> 1, modifier_den |-> 1]

UniformSignals(rs) ==
    IF Cardinality(unique_ratings(rs)) <= 1 /\ Len(rs) >= 3
        THEN << Signal("suspiciously_uniform_distribution", 60) >>
        ELSE << >>

\* variance < 0.5 and (avg_rating >= 4.5 or avg_rating <= 1.5)
LowVarianceSignals(rs) ==
    LET n == Len(rs)
        total == SumStars(rs)
    IN  IF /\ n * SumSquares(rs) - total * total < 8 * n * n
           /\ (total >= 18 * n \/ total <= 6 * n)
            THEN << Signal("low_variance_extreme_mean", 50) >>
            ELSE << >>

\* abs(avg_rating - overall_rating) > 1.5
MismatchSignals(rs, overall_rating) ==
    IF Abs(SumStars(rs) * overall_rating.den - overall_rating.num * Len(rs))
         > 6 * Len(rs) * overall_rating.den
        THEN << Signal("rating_comparison", 40) >>
        ELSE << >>

\* the text of a review is kept as its class: "negative" holds a negative
\* word and no positive word, "positive" the converse, "neutral" neither
Incongruent(r) ==
    \/ r.stars >= 16 /\ r.text = "negative"
    \/ r.stars <= 8 /\ r.text = "positive"

TextSignals(rs) ==
    IF \E i \in 1..Len(rs) : Incongruent(rs[i])
        THEN << Signal("text_rating_incongruence", 30) >>
        ELSE << >>

\* no review within 30 days of datetime.now(); a date that does not parse
\* ends the check (bare except)
OutdatedSignals(rs) ==
    IF ~AllParseable(rs) THEN << >>
    ELSE IF /\ { i \in 1..Len(rs) : Now - strptime(rs[i].date) <= 30 } = {}
            /\ Len(rs) >= 3
        THEN << Signal("outdated_feedback", 20) >>
    ELSE << >>

\* repeat_customers _calculate_skepticism: the dict it returns; score in
\* units of 1/200, confidence_impact in units of 1/2000
_calculate_skepticism(c, rs, overall_rating) ==
    IF rs = << >>
        THEN [ level |-> "none", score |-> 0, concerns |-> {},
               will_investigate |-> FALSE, confidence_impact |-> 0,
               personality_modifier |-> [num |-> 1, den |-> 1] ]
    ELSE
      LET profile == CriticalityProfile(c.criticality)
          signals == UniformSignals(rs) \o LowVarianceSignals(rs)
                       \o MismatchSignals(rs, overall_rating) \o TextSignals(rs)
                       \o OutdatedSignals(rs)
          skepticism_score ==
              Min((SumPoints(signals) * profile.modifier_num) \div profile.modifier_den,
                  200)
          investigate == skepticism_score >= profile.base_threshold
      IN  [ level |-> IF ~investigate THEN "none"
                      ELSE IF skepticism_score >= 140 THEN "high"
                      ELSE IF skepticism_score >= 80 THEN "medium"
                      ELSE "low",
            score |-> skepticism_score,
            concerns |-> { signals[i].concern : i \in 1..Len(signals) },
            will_investigate |-> investigate,
            confidence_impact |-> 0 - skepticism_score * 3,
            personality_modifier |->
                [num |-> profile.modifier_num, den |-> profile.modifier_den] ]

\* --------------------------------------------------------------- inputs
Policies == {"highest_rating", "latest", "newest_first", "recent_quality_boost",
             "random", "unknown_policy"}

\* reviews a seed file may hold (stars, date string, text class); the file's
\* date strings are not written by strftime
SeedChoices ==
    { [stars |-> 20, date |-> strftime(Now - 10),  text |-> "neutral"],
      [stars |-> 16, date |-> UnpaddedDate,        text |-> "neutral"],
      [stars |-> 4,  date |-> BadDate,             text |-> "positive"] }

\* reviews add_conf_review may append: the date is written by strftime
GeneratedChoices ==
    { [stars |-> 20, date |-> strftime(Now - 10),  text |-> "neutral"],
      [stars |-> 20, date |-> strftime(Now - 200), text |-> "neutral"],
      [stars |-> 4,  date |-> strftime(Now - 60),  text |-> "neutral"] }

WithId(r, id) == [review_id |-> id, stars |-> r.stars, date |-> r.date, text |-> r.text]

SeqsUpTo(S, n) == UNION { [1..k -> S] : k \in 0..n }

\* a seed file: its reviews get the ids 1, 2, ...
SeedFiles ==
    { [i \in 1..Len(s) |-> WithId(s[i], i)] : s \in SeqsUpTo(SeedChoices, MaxSeed) }

NoCall == [op |-> "none"]

\* No run is in progress: the state of the run-level variables in the
\* specifications that exercise a single store, assessor or customer.
NoRun ==
    /\ config = None
    /\ seed_file = None
    /\ pc = "none"
    /\ day = 0
    /\ todo = <<>>
    /\ cday = None
    /\ customers = <<>>
    /\ vendor = <<>>
    /\ error = None
    /\ daily_results = <<>>
    /\ day_stats = None

\* ---------------------------------------------------------------- actions
\* _load_initial_reviews with the seed file present: initial_reviews from
\* the file, reviews empty
Init ==
    /\ initial_reviews \in SeedFiles
    /\ reviews = <<>>
    /\ review_policy \in Policies
    /\ customer = [personality |-> {}, criticality |-> "medium"]
    /\ shown = <<>>
    /\ ret = NoCall
    /\ NoRun

\* Restaurant.add_conf_review: append the new review to self.reviews
add_conf_review ==
    /\ Len(reviews) < MaxGenerated
    /\ \E r \in GeneratedChoices :
          reviews' = Append(reviews, WithId(r, 100 + Len(reviews) + 1))
    /\ ret' = NoCall
    /\ UNCHANGED <<runvars, initial_reviews, review_policy, customer, shown>>

\* a call of Restaurant.get_sorted_reviews(limit)
GetSortedReviews ==
    /\ \E limit \in 0..MaxLimit :
         \E result \in get_sorted_reviews(initial_reviews, reviews, review_policy, limit) :
            ret' = [op |-> "get_sorted_reviews", limit |-> limit, result |-> result]
    /\ UNCHANGED <<runvars, initial_reviews, reviews, review_policy, customer, shown>>

Next ==
    \/ add_conf_review
    \/ GetSortedReviews

Spec == Init /\ [][Next]_vars

\* ------------------------------------------------ the assessors as functions
Personalities ==
    { {}, {"analytical"}, {"easy-going"}, {"balanced"}, {"analytical", "easy-going"} }

Criticalities == {"easy", "medium", "critical"}

Customers == [personality : Personalities, criticality : Criticalities]

\* the reviews a shown sample is made of
SampleChoices ==
    << [stars |-> 20, date |-> strftime(Now - 10),  text |-> "neutral"],
       [stars |-> 20, date |-> strftime(Now - 20),  text |-> "neutral"],
       [stars |-> 16, date |-> strftime(Now - 200), text |-> "negative"],
       [stars |-> 4,  date |-> strftime(Now - 400), text |-> "positive"],
       [stars |-> 20, date |-> BadDate,             text |-> "neutral"] >>

\* the assessors count, average and take extremes over the sample, so one
\* order of each multiset of reviews is enough
Samples ==
    { [i \in 1..Len(f) |-> WithId(SampleChoices[f[i]], i)] :
        f \in { g \in SeqsUpTo(1..Len(SampleChoices), MaxShown) :
                  \A i \in 1..(Len(g) - 1) : g[i] <= g[i + 1] } }

\* the vendor's overall rating as the caller may pass it: 3.5, 4.5, 5.0 stars
OverallRatings == { Rating(14, 1), Rating(18, 1), Rating(20, 1) }

RatingComparisons(rs) ==
    {None} \cup
    { _compare_ratings(reviews_read_rating(rs), o, Len(rs), t) :
        o \in OverallRatings, t \in {Len(rs), 30} }

InitAssess ==
    /\ initial_reviews \in { s \in SeedFiles : Len(s) <= 1 }
    /\ reviews = <<>>
    /\ review_policy = "highest_rating"
    /\ customer \in Customers
    /\ shown \in Samples
    /\ ret = NoCall
    /\ NoRun

\* research_implementation: a call of _assess_skepticism(customer, shown, ...)
AssessSkepticism ==
    /\ \E rc \in RatingComparisons(shown) :
         \E a \in _assess_skepticism(customer, shown, rc) :
            ret' = [op |-> "_assess_skepticism", rating_comparison |-> rc,
                    assessment |-> a]
    /\ UNCHANGED <<runvars, initial_reviews, reviews, review_policy, customer, shown>>

\* reviews_orientation: a call of _assess_skepticism(customer, shown)
OrientationAssessSkepticism ==
    /\ \E a \in orientation_assess_skepticism(customer, shown) :
          ret' = [op |-> "orientation_assess_skepticism", assessment |-> a]
    /\ UNCHANGED <<runvars, initial_reviews, reviews, review_policy, customer, shown>>

\* repeat_customers: a call of _calculate_skepticism(customer, shown, restaurant)
CalculateSkepticism ==
    /\ ret' = [op |-> "_calculate_skepticism",
               assessment |-> _calculate_skepticism(customer, shown,
                                  get_overall_rating(initial_reviews, reviews))]
    /\ UNCHANGED <<runvars, initial_reviews, reviews, review_policy, customer, shown>>

\* Customer.update_belief_beta_bernoulli: the count of reviews with
\* r.stars >= 4.0
PositiveReviewsStrict(rs) == Cardinality({ i \in 1..Len(rs) : rs[i].stars > 16 })

positive_reviews(rs) == Cardinality({ i \in 1..Len(rs) : rs[i].stars >= 16 })

\* the priors a customer is built with: Config.PRIOR_ALPHA, PRIOR_BETA (1.0,
\* 1.0) and other positive values; None when the constructor gets no prior
Priors ==
    { None, [alpha |-> 1, beta |-> 1], [alpha |-> 2, beta |-> 1],
      [alpha |-> 1, beta |-> 3] }

\* Customer.update_belief_beta_bernoulli(reviews): the posterior mean as the
\* exact fraction posterior_alpha / (posterior_alpha + posterior_beta); 0.5
\* when alpha or beta is None
update_belief_beta_bernoulli(prior, rs) ==
    IF prior = None THEN Rating(1, 2)
    ELSE
      LET total_reviews    == Len(rs)
          negative_reviews == total_reviews - positive_reviews(rs)
          posterior_alpha  == prior.alpha + positive_reviews(rs)
          posterior_beta   == prior.beta + negative_reviews
      IN  Rating(posterior_alpha, posterior_alpha + posterior_beta)

\* a call of customer.update_belief_beta_bernoulli(shown)
UpdateBelief ==
    /\ \E prior \in Priors :
          ret' = [op |-> "update_belief_beta_bernoulli", prior |-> prior,
                  mu_estimate |-> update_belief_beta_bernoulli(prior, shown)]
    /\ UNCHANGED <<runvars, initial_reviews, reviews, review_policy, customer, shown>>

\* vertical_differentiation: a call of _should_investigate_further(shown)
ShouldInvestigateFurther ==
    /\ \E outcome \in _should_investigate_further(shown) :
          ret' = [op |-> "_should_investigate_further", outcome |-> outcome]
    /\ UNCHANGED <<runvars, initial_reviews, reviews, review_policy, customer, shown>>

NextAssess ==
    \/ AssessSkepticism
    \/ OrientationAssessSkepticism
    \/ CalculateSkepticism
    \/ UpdateBelief
    \/ ShouldInvestigateFurther

SpecAssess == InitAssess /\ [][NextAssess]_vars

\* ------------------------------------------------------- the customer's day
\* mutant: the sample is taken from the seed reviews alone, as they were
\* before any customer of the run left a review
StaleReviewsForCustomer(init, revs, policy) ==
    get_sorted_reviews(init, << >>, policy, LIMITED_ATTENTION)

\* repeat_customers: _get_reviews_for_customer
_get_reviews_for_customer(init, revs, policy) ==
    get_sorted_reviews(init, revs, policy, LIMITED_ATTENTION)

\* research_implementation: Restaurant.get_conf_reviews_for_customer(c)
get_conf_reviews_for_customer(init, revs, policy, c) ==
    get_sorted_reviews(init, revs, policy, c)

\* engine._get_recent_quality_boost_combined_reviews: boosts all the reviews
_get_recent_quality_boost_combined_reviews(all_reviews) == BoostSort(all_reviews)

\* engine._get_combined_reviews (research_implementation, reviews_orientation)
_get_combined_reviews(init, revs, policy) ==
    LET all_reviews == init \o revs IN
    IF policy = "highest_rating" THEN SortedByStarsReverse(all_reviews)
    ELSE IF policy = "latest" THEN SortedByDateReverse(all_reviews)
    ELSE IF policy = "recent_quality_boost"
        THEN _get_recent_quality_boost_combined_reviews(all_reviews)
    ELSE SortedByDateReverse(all_reviews)

\* Restaurant.get_recent_reviews(limit): over self.reviews
get_recent_reviews(revs, limit) == Take(SortedByDateReverse(revs), limit)

\* Restaurant.get_reviews_by_rating(stars, limit): over self.reviews
get_reviews_by_rating(revs, stars, limit) ==
    Take(SortedByDateReverse(SelectSeq(revs, LAMBDA r : r.stars = stars)), limit)

\* {r['review_id']: r for r in additional}.values(): one entry per id, at the
\* place of its first occurrence
RECURSIVE UniqueById(_)
UniqueById(rs) ==
    IF rs = <<>> THEN <<>>
    ELSE LET init == UniqueById(SubSeq(rs, 1, Len(rs) - 1))
             last == rs[Len(rs)]
         IN  IF \E i \in 1..Len(init) : init[i].review_id = last.review_id
                 THEN init
                 ELSE Append(init, last)

\* engine._get_additional_reviews: 3 recent, 2 one-star, 2 two-star reviews,
\* without duplicates, at most 5
_get_additional_reviews(revs) ==
    Take(UniqueById(get_recent_reviews(revs, 3)
                      \o get_reviews_by_rating(revs, 4, 2)
                      \o get_reviews_by_rating(revs, 8, 2)), 5)

\* mutant: the extended sample is not cut
Uncapped(s, cap) == s

\* a_reviews_shown = a_reviews_shown[:total_cap]
CapSample(s, cap) == Take(s, cap)

\* the configured rating (0-100) as quarter stars
configured_rating_stars == Rating(RESTAURANT_A_RATING, 5)

\* 0.5 * configured_rating_stars + 0.5 * review_based_rating
restaurant_overall_rating(review_based) ==
    Rating(configured_rating_stars.num * review_based.den
             + configured_rating_stars.den * review_based.num,
           2 * configured_rating_stars.den * review_based.den)

DayCustomers ==
    { [personality |-> {"analytical"}, criticality |-> "critical"],
      [personality |-> {"easy-going"}, criticality |-> "easy"],
      [personality |-> {},             criticality |-> "medium"] }

\* the policies of a vendor; most_helpful is a name get_sorted_reviews does
\* not know
DayPolicies ==
    {"highest_rating", "latest", "newest_first", "recent_quality_boost", "most_helpful"}

\* the seed files of a run: an empty list, or four reviews
DaySeedFiles ==
    { <<>>,
      << WithId([stars |-> 20, date |-> strftime(Now - 10),  text |-> "neutral"], 1),
         WithId([stars |-> 20, date |-> strftime(Now - 20),  text |-> "neutral"], 2),
         WithId([stars |-> 20, date |-> strftime(Now - 40),  text |-> "neutral"], 3),
         WithId([stars |-> 4,  date |-> strftime(Now - 400), text |-> "neutral"], 4) >> }

\* the review a customer writes on the day of the visit
DayGeneratedChoices ==
    { [stars |-> 20, date |-> strftime(Now), text |-> "neutral"],
      [stars |-> 4,  date |-> strftime(Now), text |-> "neutral"] }

InitDay ==
    /\ initial_reviews \in DaySeedFiles
    /\ reviews = <<>>
    /\ review_policy \in DayPolicies
    /\ customer = [personality |-> {}, criticality |-> "medium"]
    /\ shown = <<>>
    /\ ret = NoCall
    /\ NoRun

\* the vendor is chosen and the customer's review is appended to self.reviews,
\* or the store stays as it is
ReviewLeft(chosen) ==
    \/ /\ chosen
       /\ Len(reviews) < MaxDayGenerated
       /\ \E r \in DayGeneratedChoices :
             reviews' = Append(reviews, WithId(r, 100 + Len(reviews) + 1))
    \/ reviews' = reviews

\* repeat_customers: one customer of _simulate_day: _customer_makes_choice
\* (the sample, the assessment, the investigation, the decision), then the
\* visit and _customer_leaves_review
_simulate_day ==
    \E c \in DayCustomers :
    \E a_reviews \in _get_reviews_for_customer(initial_reviews, reviews, review_policy) :
      LET a_skepticism == _calculate_skepticism(c, a_reviews,
                              get_overall_rating(initial_reviews, reviews))
      IN
      \E additional \in
           (IF a_skepticism.will_investigate
               THEN get_sorted_reviews(initial_reviews, reviews, review_policy,
                                       SKEPTICAL_REVIEWS)
               ELSE { <<>> }) :
      \E decision \in {"A", "B", "neither"} :
         /\ customer' = c
         /\ shown' = a_reviews \o additional
         /\ ReviewLeft(decision = "A")
         /\ ret' = [op |-> "_simulate_day", initial |-> a_reviews,
                    skepticism |-> a_skepticism, decision |-> decision]
         /\ UNCHANGED <<runvars, initial_reviews, review_policy>>

\* research_implementation: one customer of run_day
run_day ==
    \E c \in DayCustomers :
      LET a_reviews_shown ==
              Take(_get_combined_reviews(initial_reviews, reviews, review_policy),
                   CONF_LIMITED_ATTENTION)
          total_cap == CONF_LIMITED_ATTENTION + CONF_SKEPTICAL_REVIEWS
      IN
      \E a_skepticism \in _assess_skepticism(c, a_reviews_shown, None) :
      \E decision \in {"A", "B"} :
         /\ customer' = c
         /\ shown' = IF a_skepticism.will_investigate
                        THEN CapSample(a_reviews_shown \o _get_additional_reviews(reviews),
                                       total_cap)
                        ELSE a_reviews_shown
         /\ ReviewLeft(decision = "A")
         /\ ret' = [op |-> "run_day", initial |-> a_reviews_shown,
                    skepticism |-> a_skepticism, decision |-> decision]
         /\ UNCHANGED <<runvars, initial_reviews, review_policy>>

\* reviews_orientation: one customer of run_day; an exception ends the
\* customer's turn (except Exception: continue)
orientation_run_day ==
    \E c \in DayCustomers :
      LET a_reviews_shown ==
              Take(_get_combined_reviews(initial_reviews, reviews, review_policy),
                   ORIENTATION_LIMITED_ATTENTION)
      IN
      \E a_skepticism \in orientation_assess_skepticism(c, a_reviews_shown) :
         /\ customer' = c
         /\ UNCHANGED <<runvars, initial_reviews, review_policy>>
         /\ IF "raised" \in DOMAIN a_skepticism
              THEN /\ shown' = a_reviews_shown
                   /\ reviews' = reviews
                   /\ ret' = [op |-> "orientation_run_day", initial |-> a_reviews_shown,
                              raised |-> a_skepticism.raised]
              ELSE \E decision \in {"A", "B"} :
                   /\ shown' = IF a_skepticism.will_investigate
                                  THEN Take(a_reviews_shown
                                              \o _get_additional_reviews(reviews),
                                            ORIENTATION_TOTAL_CAP)
                                  ELSE a_reviews_shown
                   /\ ReviewLeft(decision = "A")
                   /\ ret' = [op |-> "orientation_run_day", initial |-> a_reviews_shown,
                              skepticism |-> a_skepticism, decision |-> decision]

\* research_implementation: _evaluate_restaurant_for_customer; the decision
\* record reads skepticism_result["score"]
_evaluate_restaurant_for_customer ==
    \E c \in DayCustomers :
    \E initial \in get_conf_reviews_for_customer(initial_reviews, reviews, review_policy,
                                                 CONF_LIMITED_ATTENTION) :
      LET rating_comparison ==
              _compare_ratings(reviews_read_rating(initial),
                  restaurant_overall_rating(get_overall_rating(initial_reviews, reviews)),
                  Len(initial), get_review_count(initial_reviews, reviews))
      IN
      \E skepticism_result \in _assess_skepticism(c, initial, rating_comparison) :
      \E additional \in
           (IF skepticism_result.will_investigate
               THEN get_conf_reviews_for_customer(initial_reviews, reviews, review_policy,
                                                  CONF_SKEPTICAL_REVIEWS)
               ELSE { <<>> }) :
         /\ customer' = c
         /\ shown' = initial \o additional
         /\ ret' = IF "score" \in DOMAIN skepticism_result
                      THEN [op |-> "_evaluate_restaurant_for_customer",
                            initial |-> initial, skepticism |-> skepticism_result,
                            rating_comparison |-> rating_comparison]
                      ELSE [op |-> "_evaluate_restaurant_for_customer",
                            initial |-> initial, skepticism |-> skepticism_result,
                            raised |-> "KeyError"]
         /\ UNCHANGED <<runvars, initial_reviews, reviews, review_policy>>

NextDay ==
    \/ _simulate_day
    \/ run_day
    \/ orientation_run_day
    \/ _evaluate_restaurant_for_customer

SpecDay == InitDay /\ [][NextDay]_vars

\* ---------------------------------------------------- exposure policies
AllReviews == get_all_reviews(initial_reviews, reviews)

Called == ret.op = "get_sorted_reviews"

Returned(r) == \E i \in 1..Len(ret.result) : ret.result[i].review_id = r.review_id

\* position of the review with this id in the store's insertion order
StorePos(id) == CHOOSE i \in 1..Len(AllReviews) : AllReviews[i].review_id = id

InStore(r) == \E i \in 1..Len(AllReviews) : AllReviews[i] = r

FallsBackToNewest == review_policy \notin {"highest_rating", "recent_quality_boost", "random"}

\* C1 (as claimed): under every policy a call get_sorted_reviews(limit) on a
\* store of N = |seed| + |generated| reviews returns exactly min(N, limit)
\* reviews.
C1_BoundedExposure ==
    Called => Len(ret.result) = Min(Len(AllReviews), ret.limit)

\* C3: under highest_rating the returned list is in non-increasing order of
\* stars, reviews with equal stars keep their store order, and when the
\* store holds more than limit reviews no returned review has fewer stars
\* than a review that was not returned.
C3_HighestRating ==
    (Called /\ review_policy = "highest_rating") =>
        LET res == ret.result IN
        /\ \A i, j \in 1..Len(res) : i < j =>
              /\ res[i].stars >= res[j].stars
              /\ res[i].stars = res[j].stars =>
                    StorePos(res[i].review_id) < StorePos(res[j].review_id)
        /\ Len(AllReviews) > ret.limit =>
              \A i \in 1..Len(res) : \A k \in 1..Len(AllReviews) :
                  ~Returned(AllReviews[k]) => res[i].stars >= AllReviews[k].stars

\* C3 witness: a highest_rating call on a store larger than the limit that
\* returned two reviews of equal stars and left a review out.
C3_Witness ==
    /\ Called /\ review_policy = "highest_rating"
    /\ Len(AllReviews) > ret.limit
    /\ Len(ret.result) >= 2
    /\ ret.result[1].stars = ret.result[2].stars
    /\ \E k \in 1..Len(AllReviews) : ~Returned(AllReviews[k])

\* C4: under newest_first, latest and any unknown policy value the returned
\* list is in non-increasing timestamp order, and when the store holds more
\* than limit reviews no returned review is older than a review that was
\* not returned (the timestamp of a review is what strptime reads from its
\* date; a review whose date does not parse has none).
C4_NewestFirst ==
    (Called /\ FallsBackToNewest) =>
        LET res == ret.result IN
        /\ \A i, j \in 1..Len(res) :
              (i < j /\ IsParseable(res[i].date) /\ IsParseable(res[j].date)) =>
                  strptime(res[i].date) >= strptime(res[j].date)
        /\ Len(AllReviews) > ret.limit =>
              \A i \in 1..Len(res) : \A k \in 1..Len(AllReviews) :
                  ( /\ ~Returned(AllReviews[k])
                    /\ IsParseable(res[i].date)
                    /\ IsParseable(AllReviews[k].date) ) =>
                        strptime(res[i].date) >= strptime(AllReviews[k].date)

IsRecent(r) == IsParseable(r.date) /\ strptime(r.date) >= Now - 30

IsOld(r) == IsParseable(r.date) /\ strptime(r.date) < Now - 90

ResultPos(r) == CHOOSE i \in 1..Len(ret.result) : ret.result[i].review_id = r.review_id

\* C5 (as claimed): under the recency-boost policy, of two reviews of the
\* vendor with the same raw stars, one within 30 days of now and one more
\* than 90 days old, the recent one is ranked at or above the old one in the
\* returned order.
C5_RecencyBoostRank ==
    (Called /\ review_policy = "recent_quality_boost") =>
        \A a, b \in 1..Len(AllReviews) :
            LET r == AllReviews[a]
                o == AllReviews[b]
            IN  (IsRecent(r) /\ IsOld(o) /\ r.stars = o.stars /\ Returned(o)) =>
                    (Returned(r) /\ ResultPos(r) < ResultPos(o))

\* C6: under policy random the call returns every review of the store when
\* the store holds at most limit reviews, and otherwise limit reviews that
\* are all in the store, none of them twice.
C6_RandomSelection ==
    (Called /\ review_policy = "random") =>
        LET res == ret.result IN
        IF Len(AllReviews) <= ret.limit
            THEN res = AllReviews
            ELSE /\ Len(res) = ret.limit
                 /\ \A i \in 1..Len(res) : InStore(res[i])
                 /\ \A i, j \in 1..Len(res) :
                       i # j => res[i].review_id # res[j].review_id

\* C6 witness: a random draw of two reviews from a larger store, returned in
\* an order other than the store's.
C6_Witness ==
    /\ Called /\ review_policy = "random"
    /\ Len(AllReviews) > ret.limit
    /\ Len(ret.result) = 2
    /\ StorePos(ret.result[1].review_id) > StorePos(ret.result[2].review_id)

\* ------------------------------------------------------- skepticism claims
Assessors == {"_assess_skepticism", "orientation_assess_skepticism", "_calculate_skepticism"}

HasScore == ret.op \in Assessors /\ "score" \in DOMAIN ret.assessment

\* C7: whatever the customer's personality and criticality and whatever the
\* shown sample, a score returned by any of the three assessors is never
\* negative.
C7_ZeroFloor == HasScore => ret.assessment.score >= 0

\* C7 witness: a trusting, easy customer whose points and modifiers sum to
\* less than zero, and the returned score is 0
C7_Witness ==
    /\ ret.op = "_assess_skepticism"
    /\ shown # <<>>
    /\ raw_score(customer, shown, ret.rating_comparison) < 0
    /\ ret.assessment.score = 0

CritRank(k) == IF k = "easy" THEN 1 ELSE IF k = "medium" THEN 2 ELSE 3

\* C8: with the shown sample, the vendor rating (the rating comparison, the
\* overall rating) and the personality fixed, the score of the research and
\* of the repeat-customer assessor does not decrease from easy to medium to
\* critical.
C8_CriticalityMonotone ==
    /\ (ret.op = "_assess_skepticism" /\ shown # <<>>) =>
          \A k \in Criticalities :
             CritRank(customer.criticality) <= CritRank(k) =>
                \A a2 \in _assess_skepticism([customer EXCEPT !.criticality = k],
                                             shown, ret.rating_comparison) :
                   ret.assessment.score <= a2.score
    /\ (ret.op = "_calculate_skepticism") =>
          \A k \in Criticalities :
             CritRank(customer.criticality) <= CritRank(k) =>
                ret.assessment.score
                  <= _calculate_skepticism([customer EXCEPT !.criticality = k], shown,
                        get_overall_rating(initial_reviews, reviews)).score

\* C8 witness: an easy customer's research score strictly below the score
\* the same sample gets from a critical customer
C8_Witness ==
    /\ ret.op = "_assess_skepticism"
    /\ shown # <<>>
    /\ customer.criticality = "easy"
    /\ ret.assessment.score > 0
    /\ \E a2 \in _assess_skepticism([customer EXCEPT !.criticality = "critical"],
                                    shown, ret.rating_comparison) :
          ret.assessment.score < a2.score

\* the scenario's sample: 5 reviews, all 5.0 stars, dated, the newest within
\* 30 days, spread over more than 7 days
FivePerfectReviews(rs) ==
    /\ Len(rs) = 5
    /\ \A i \in 1..5 : rs[i].stars = 20
    /\ AllParseable(rs)
    /\ most_recent_date(rs) >= Now - 30
    /\ most_recent_date(rs) - oldest_date(rs) > 7

AnalyticalCritical ==
    /\ "analytical" \in customer.personality
    /\ customer.criticality = "critical"

\* no sample-vs-population mismatch reaches the research assessor
ResearchScenario ==
    /\ ret.op = "_assess_skepticism"
    /\ FivePerfectReviews(shown)
    /\ AnalyticalCritical
    /\ RatingComparisonSignals(ret.rating_comparison) = << >>

\* no mismatch with the overall rating and no text incongruence reach the
\* repeat-customer assessor
RepeatScenario ==
    /\ ret.op = "_calculate_skepticism"
    /\ FivePerfectReviews(shown)
    /\ AnalyticalCritical
    /\ MismatchSignals(shown, get_overall_rating(initial_reviews, reviews)) = << >>
    /\ TextSignals(shown) = << >>

C9_WitnessRepeat == RepeatScenario /\ ret.assessment.score = 165

\* ------------------------------------------------------------- day claims
DayOps == {"_simulate_day", "run_day", "orientation_run_day",
           "_evaluate_restaurant_for_customer"}

\* a customer's turn that got as far as the sample for the decision
Sampled == ret.op \in DayOps /\ "raised" \notin DOMAIN ret

attention_limit ==
    IF ret.op = "_simulate_day" THEN LIMITED_ATTENTION
    ELSE IF ret.op = "orientation_run_day" THEN ORIENTATION_LIMITED_ATTENTION
    ELSE CONF_LIMITED_ATTENTION

investigation_limit ==
    IF ret.op = "_simulate_day" THEN SKEPTICAL_REVIEWS
    ELSE IF ret.op = "orientation_run_day"
        THEN ORIENTATION_TOTAL_CAP - ORIENTATION_LIMITED_ATTENTION
    ELSE CONF_SKEPTICAL_REVIEWS

\* C2: the sample handed to the decision step holds at most attention_limit
\* reviews when the customer did not investigate and at most
\* attention_limit + investigation_limit reviews when the customer did,
\* whatever the size of the store.
C2_BoundedAttention ==
    Sampled =>
        /\ Len(ret.initial) <= attention_limit
        /\ ~ret.skepticism.will_investigate => Len(shown) <= attention_limit
        /\ ret.skepticism.will_investigate =>
              Len(shown) <= attention_limit + investigation_limit

\* C2 witness: a research customer investigated a store of more reviews
\* than both limits together, found more additional reviews than the
\* investigation limit, and the sample holds exactly the two limits
C2_Witness ==
    /\ ret.op = "run_day"
    /\ ret.skepticism.will_investigate
    /\ Len(initial_reviews) + Len(reviews) > attention_limit + investigation_limit
    /\ Len(ret.initial) + Len(_get_additional_reviews(reviews))
         > attention_limit + investigation_limit
    /\ Len(shown) = attention_limit + investigation_limit

\* C10 as stated: for an empty shown sample the assessment is exactly level
\* none, will_investigate false and score 0, and the reads of these fields
\* that follow succeed.
C10_EmptySample ==
    (ret.op \in DayOps /\ ret.initial = <<>>) =>
        /\ "raised" \notin DOMAIN ret
        /\ {"level", "score", "will_investigate"} \subseteq DOMAIN ret.skepticism
        /\ ret.skepticism.level = "none"
        /\ ret.skepticism.will_investigate = FALSE
        /\ ret.skepticism.score = 0

\* ------------------------------------------------- the customer's memory
MaxExperiences == 4

\* Customer.add_experience: self.experiences.append(experience)
PrependExperience(experiences, experience) == <<experience>> \o experiences

add_experience(experiences, experience) == Append(experiences, experience)

\* get_restaurant_preference: the experiences with exp.restaurant_id ==
\* restaurant_id
AllExperiences(experiences, restaurant_id) == experiences

restaurant_experiences(experiences, restaurant_id) ==
    SelectSeq(experiences, LAMBDA exp : exp.restaurant_id = restaurant_id)

\* sum(1.0 if exp.was_satisfied else -0.5 ...), in halves
RECURSIVE total_score(_)
total_score(exps) ==
    IF exps = <<>> THEN 0
    ELSE (IF Head(exps).was_satisfied THEN 2 ELSE 0 - 1) + total_score(Tail(exps))

\* Customer.get_restaurant_preference(restaurant_id): 0.0 without an
\* experience at the vendor, else total_score / len as an exact fraction
get_restaurant_preference(experiences, restaurant_id) ==
    LET exps == restaurant_experiences(experiences, restaurant_id)
    IN  IF exps = <<>> THEN Rating(0, 1)
        ELSE Rating(total_score(exps), 2 * Len(exps))

\* Customer.get_experience_count(restaurant_id)
get_experience_count(experiences, restaurant_id) ==
    Len(SelectSeq(experiences, LAMBDA exp : exp.restaurant_id = restaurant_id))

\* the experiences a visit may end with (_customer_visits_restaurant maps the
\* experience quality to stars: satisfied from 4.0 stars on)
ExperienceChoices ==
    { [restaurant_id |-> v, ordered_item |-> "Club Sandwich", price_paid |-> 17,
       stars_given |-> q.stars, was_satisfied |-> q.sat] :
        v \in {"A", "B"},
        q \in { [stars |-> 16, sat |-> TRUE], [stars |-> 12, sat |-> FALSE] } }

InitMemory ==
    /\ initial_reviews = <<>>
    /\ reviews = <<>>
    /\ review_policy = "highest_rating"
    /\ customer = [personality |-> {}, criticality |-> "medium",
                   experiences |-> <<>>]
    /\ shown = <<>>
    /\ ret = NoCall
    /\ NoRun

\* a visit ends: customer.add_experience(experience)
AddExperience ==
    /\ Len(customer.experiences) < MaxExperiences
    /\ \E experience \in ExperienceChoices :
          customer' = [customer EXCEPT
                         !.experiences = add_experience(@, experience)]
    /\ ret' = NoCall
    /\ UNCHANGED <<runvars, initial_reviews, reviews, review_policy, shown>>

\* a call of customer.get_restaurant_preference(restaurant_id)
GetRestaurantPreference ==
    /\ \E restaurant_id \in {"A", "B"} :
          ret' = [op |-> "get_restaurant_preference",
                  restaurant_id |-> restaurant_id,
                  result |-> get_restaurant_preference(customer.experiences,
                                                       restaurant_id)]
    /\ UNCHANGED <<runvars, initial_reviews, reviews, review_policy, customer, shown>>

NextMemory ==
    \/ AddExperience
    \/ GetRestaurantPreference

SpecMemory == InitMemory /\ [][NextMemory]_vars

\* ---------------------------------------------------------- customer claims
\* C11: for a customer with prior (alpha, beta) and a sample with p reviews
\* of at least 4 stars and n reviews below 4 stars, update_belief_beta_bernoulli
\* returns exactly (alpha + p) / (alpha + p + beta + n).
C11_BayesianUpdate ==
    (ret.op = "update_belief_beta_bernoulli" /\ ret.prior # None) =>
        LET p == Cardinality({ i \in 1..Len(shown) : shown[i].stars >= 16 })
            n == Cardinality({ i \in 1..Len(shown) : shown[i].stars < 16 })
        IN  /\ ret.mu_estimate.den > 0
            /\ ret.mu_estimate.num * (ret.prior.alpha + p + ret.prior.beta + n)
                 = (ret.prior.alpha + p) * ret.mu_estimate.den

\* C11 witness: prior (1, 3), a sample of two reviews of exactly 4 stars and
\* one of 1 star: the posterior mean is 3/7
C11_Witness ==
    /\ ret.op = "update_belief_beta_bernoulli"
    /\ ret.prior = [alpha |-> 1, beta |-> 3]
    /\ Cardinality({ i \in 1..Len(shown) : shown[i].stars = 16 }) = 2
    /\ Cardinality({ i \in 1..Len(shown) : shown[i].stars = 4 }) = 1
    /\ Len(shown) = 3
    /\ ret.mu_estimate = Rating(3, 7)

\* the customer's satisfied and unsatisfied experiences at the vendor
Satisfied(restaurant_id) ==
    Cardinality({ i \in 1..Len(customer.experiences) :
                    /\ customer.experiences[i].restaurant_id = restaurant_id
                    /\ customer.experiences[i].was_satisfied })

Unsatisfied(restaurant_id) ==
    Cardinality({ i \in 1..Len(customer.experiences) :
                    /\ customer.experiences[i].restaurant_id = restaurant_id
                    /\ ~customer.experiences[i].was_satisfied })

\* C12: get_restaurant_preference(X) is (s * 1.0 + u * (-0.5)) / (s + u) over
\* the s satisfied and u unsatisfied experiences at vendor X only, and 0.0
\* without an experience at X; the other vendor's experiences do not count.
C12_PreferenceAggregation ==
    ret.op = "get_restaurant_preference" =>
        LET s == Satisfied(ret.restaurant_id)
            u == Unsatisfied(ret.restaurant_id)
        IN  IF s + u = 0 THEN ret.result = Rating(0, 1)
            ELSE /\ ret.result.den > 0
                 /\ ret.result.num * (2 * (s + u)) = (2 * s - u) * ret.result.den

\* C12 witness: three satisfied visits and one unsatisfied visit give
\* 0.625 = 5/8
C12_Witness ==
    /\ ret.op = "get_restaurant_preference"
    /\ Satisfied(ret.restaurant_id) = 3
    /\ Unsatisfied(ret.restaurant_id) = 1
    /\ ret.result.num * 8 = 5 * ret.result.den

\* C12 witness: the customer has been to both vendors and the preference
\* for the one counts only its own visit
C12_WitnessOtherVendor ==
    /\ ret.op = "get_restaurant_preference"
    /\ ret.restaurant_id = "A"
    /\ Satisfied("A") = 1 /\ Unsatisfied("A") = 0
    /\ Unsatisfied("B") >= 1
    /\ ret.result.num = ret.result.den

\* ------------------------------------------------------------------ the run
\* customers per day times days of a run
MaxCustomerDays == 2

\* engine.simulation_start_date, as a day number
simulation_start_date == 400
\* _load_initial_reviews: for i in range(20)
FALLBACK_REVIEWS == 20
\* _customer_visits_restaurant: restaurant.menu.get(chosen_item, 20)
DEFAULT_PRICE == 20

Vendors == {"A", "B"}

\* Config.RESTAURANT_A_MENU / RESTAURANT_B_MENU (the same dict), its first
\* key and one more of its items
RESTAURANT_MENU == [item \in {"Avocado Eggrolls", "Club Sandwich"} |->
                        IF item = "Avocado Eggrolls" THEN 14 ELSE 17]

first_menu_item == "Avocado Eggrolls"

\* the chosen_item of a menu reply is a JSON string, or (chosen_item_type
\* "list") a JSON list holding the string, which is not hashable:
\* dict.get(value) and "value in dict" raise TypeError
Hashable(menu_choice) == "chosen_item_type" \notin DOMAIN menu_choice

\* dict.get(key, default)
Get(dict, key, default) == IF key \in DOMAIN dict THEN dict[key] ELSE default

\* Restaurant.__init__ of the repeat-customer variant
Restaurant(restaurant_id) ==
    [ restaurant_id |-> restaurant_id,
      review_policy |-> IF restaurant_id = "A" THEN "highest_rating" ELSE "newest_first",
      menu |-> RESTAURANT_MENU,
      reviews |-> << >>,
      revenue |-> 0,
      initial_reviews |-> << >>,
      daily_customers |-> << >>,
      customer_visit_count |-> << >> ]

\* Restaurant.__init__ of the research variant
ResearchRestaurant(restaurant_id) ==
    [ Restaurant(restaurant_id) EXCEPT
        !.review_policy = IF restaurant_id = "A" THEN "random" ELSE "highest_rating" ]

\* Restaurant.add_daily_customer
add_daily_customer(restaurant, d, customer_id) ==
    LET with_day == IF d \in DOMAIN restaurant.daily_customers
                        THEN restaurant.daily_customers
                        ELSE (d :> << >>) @@ restaurant.daily_customers
        with_count == IF customer_id \in DOMAIN restaurant.customer_visit_count
                          THEN restaurant.customer_visit_count
                          ELSE (customer_id :> 0) @@ restaurant.customer_visit_count
    IN  [ restaurant EXCEPT
            !.daily_customers = [with_day EXCEPT ![d] = Append(@, customer_id)],
            !.customer_visit_count = [with_count EXCEPT ![customer_id] = @ + 1] ]

\* the stars of a visit: experience_quality <= 0.3 gives 2.0, <= 0.8 gives 4.0
ExperienceStars == {8, 16}

\* Restaurant.add_conf_review of the repeat-customer variant: the call of
\* llm.generate_conf_review passes experience_quality, which that function
\* does not accept; the TypeError is caught and the fallback review is built
\* from the experience quality (here: its stars) and the simulation date
conf_review(stars, simulation_date) ==
    [ stars |-> stars,
      date |-> strftime(simulation_date),
      text |-> IF stars >= 16 THEN "positive" ELSE "negative" ]

\* the seed file of a vendor, when it exists
RunSeedFile(restaurant_id) ==
    IF restaurant_id = "A"
        THEN << WithId([stars |-> 20, date |-> strftime(simulation_start_date - 40), text |-> "neutral"], 1),
                WithId([stars |-> 12, date |-> strftime(simulation_start_date - 10), text |-> "neutral"], 2) >>
        ELSE << WithId([stars |-> 16, date |-> strftime(simulation_start_date - 20), text |-> "neutral"], 1),
                WithId([stars |-> 20, date |-> strftime(simulation_start_date - 5),  text |-> "neutral"], 2) >>

\* the draws of a run's fallback loops: experience quality (as stars) and
\* random.randint(30, 365) days before the start, one pair per review
FallbackDraws ==
    { [i \in 1..FALLBACK_REVIEWS |-> [stars |-> IF i % 2 = 0 THEN 16 ELSE 8, days |-> 30 + i]],
      [i \in 1..FALLBACK_REVIEWS |-> [stars |-> 20, days |-> 365]] }

\* _load_initial_reviews: the file's reviews into initial_reviews, or, on
\* FileNotFoundError, 20 generated reviews appended to reviews
_load_initial_reviews(restaurant, file_exists, draws) ==
    IF file_exists
        THEN [ restaurant EXCEPT !.initial_reviews = RunSeedFile(restaurant.restaurant_id),
                                 !.reviews = << >> ]
        ELSE [ restaurant EXCEPT !.reviews =
                 [i \in 1..FALLBACK_REVIEWS |->
                    WithId(conf_review(draws[i].stars,
                                       simulation_start_date - draws[i].days), i)] ]

Engines == {"repeat", "run_day", "competitive"}

Configs(engines) ==
    { cfg \in [engine : engines, customers : 1..MaxCustomerDays, days : 1..MaxCustomerDays] :
        cfg.customers * cfg.days <= MaxCustomerDays }

\* repeat_customers: the day totals at the start of _simulate_day
\* (day_customers_a, day_revenue_a, day_customers_b, day_revenue_b)
NoStats == [v \in Vendors |-> [customers |-> 0, revenue |-> 0]]

\* the state before the run starts, for the engines given
InitEngines(engines) ==
    /\ initial_reviews = << >>
    /\ reviews = << >>
    /\ review_policy = "highest_rating"
    /\ customer = [personality |-> {}, criticality |-> "medium"]
    /\ shown = << >>
    /\ ret = NoCall
    /\ config \in Configs(engines)
    /\ seed_file \in [Vendors -> BOOLEAN]
    /\ pc = "init"
    /\ day = 0
    /\ todo = << >>
    /\ cday = None
    /\ customers = << >>
    /\ vendor = [v \in Vendors |->
                    IF config.engine = "repeat" THEN Restaurant(v)
                                                ELSE ResearchRestaurant(v)]
    /\ error = None
    /\ daily_results = << >>
    /\ day_stats = NoStats

storevars == <<initial_reviews, reviews, review_policy, customer, shown, ret>>

\* repeat_customers: _initialize_restaurants
_initialize_restaurants ==
    /\ config.engine = "repeat"
    /\ pc = "init"
    /\ \E draws \in FallbackDraws :
          vendor' = [v \in Vendors |->
                       _load_initial_reviews(vendor[v], seed_file[v], draws)]
    /\ pc' = "generate"
    /\ UNCHANGED <<storevars, dayvars, config, seed_file, day, todo, cday, customers, error>>

\* repeat_customers Config: the Beta prior of every customer and the mean of
\* the draw of theta (random.normalvariate(THETA_MEAN, THETA_STD)); the
\* repeat-customer engine never reads theta, and the model keeps the mean
PRIOR_ALPHA == 1
PRIOR_BETA == 1
THETA_MEAN == 50

\* repeat_customers: _generate_repeat_customers
_generate_repeat_customers ==
    /\ config.engine = "repeat"
    /\ pc = "generate"
    /\ customers' = [i \in 1..config.customers |->
                       [customer_id |-> i, criticality |-> "medium",
                        personality |-> {}, theta |-> THETA_MEAN,
                        alpha |-> PRIOR_ALPHA, beta |-> PRIOR_BETA,
                        experiences |-> << >>]]
    /\ pc' = "days"
    /\ UNCHANGED <<storevars, dayvars, config, seed_file, day, todo, cday, vendor, error>>

\* the orders random.shuffle may leave n customers in
Shuffles(n) == { p \in [1..n -> 1..n] : \A i, j \in 1..n : p[i] = p[j] => i = j }

\* repeat_customers: the start of _simulate_day(day): the day's customers
\* in shuffled order
BeginDay ==
    /\ config.engine = "repeat"
    /\ pc = "days"
    /\ day < config.days
    /\ day' = day + 1
    /\ todo' \in Shuffles(config.customers)
    /\ cday' = None
    /\ day_stats' = NoStats
    /\ pc' = "customer"
    /\ UNCHANGED <<storevars, daily_results, config, seed_file, customers, vendor, error>>

\* the substrings of a prompt that _generate_fallback looks for
make_repeat_customer_decision_prompt == {"review"}
choose_menu_item_prompt == {"choose what to order"}

\* LLMInterface._generate_fallback: the replies it may return
_generate_fallback(prompt) ==
    IF "review" \in prompt
        THEN { [ user_id |-> "fallback_user", business_id |-> "A", stars |-> 12,
                 text |-> "neutral", ordered_item |-> "Burger" ] }
    ELSE IF "customer" \in prompt
        THEN { [ name |-> "Fallback Customer", personality |-> "Neutral" ] }
    ELSE IF "choose what to order" \in prompt
        THEN { [ chosen_item |-> "Burger",
                 reason |-> "Fallback selection due to system error" ] }
    ELSE { [ decision |-> d,
             reason |-> "I randomly chose this restaurant due to system error" ]
           : d \in {"A", "B"} }

\* LLMInterface._call_llm: the oracle's reply, or, when the call raises
\* (timeout, malformed JSON), the fallback
_call_llm(prompt, failed, replies) ==
    IF failed THEN _generate_fallback(prompt) ELSE replies

\* replies of the oracle to a decision prompt
DecisionReplies == { [decision |-> d, reason |-> "oracle"] : d \in {"A", "B", "neither"} }

\* replies of the oracle to a menu prompt: an item of the menu, a name that
\* is not on the menu, a JSON list
MenuReplies ==
    { [chosen_item |-> "Club Sandwich", reason |-> "oracle"],
      [chosen_item |-> "Pizza", reason |-> "oracle"],
      [chosen_item |-> "Club Sandwich", reason |-> "oracle", chosen_item_type |-> "list"] }

\* generate_review's prompt ("Write a restaurant review in JSON ...")
generate_review_prompt == {"review"}

\* replies of the oracle to a review prompt: a review with stars and text,
\* a JSON object without the key stars
ReviewReplies ==
    { [stars |-> s, text |-> "neutral"] : s \in ExperienceStars }
      \cup { [text |-> "neutral"] }

\* a customer-day at its start; exposed holds, per vendor, the sample of
\* reviews the customer was shown; created, conf_customer and evaluation
\* hold the generated customer of the competitive run as created, as the
\* evaluations left them, and the decision data of the two evaluations
CustomerDay(customer_id, d) ==
    [ customer_id |-> customer_id, day |-> d, trace |-> << "ARRIVED" >>,
      exposed |-> [v \in Vendors |-> << >>],
      created |-> None, conf_customer |-> None, evaluation |-> << >>,
      oracle_failed |-> FALSE, fallback_decisions |-> {}, decision |-> "none",
      ordered_item |-> "none", price |-> 0, caught |-> "none" ]

\* repeat_customers: _simulate_day up to the decision of the next customer:
\* _customer_makes_choice exposes both samples, assesses both, investigates
\* and asks the oracle; a decision other than A or B ends the customer-day
_customer_makes_choice ==
    /\ config.engine = "repeat"
    /\ pc = "customer"
    /\ todo # << >>
    /\ LET c == customers[Head(todo)]
           A == vendor["A"]
           B == vendor["B"]
       IN
       \E a_reviews \in _get_reviews_for_customer(A.initial_reviews, A.reviews, A.review_policy) :
       \E b_reviews \in _get_reviews_for_customer(B.initial_reviews, B.reviews, B.review_policy) :
       \E failed \in BOOLEAN :
       \E decision_result \in _call_llm(make_repeat_customer_decision_prompt, failed, DecisionReplies) :
         LET a_skepticism == _calculate_skepticism(c, a_reviews,
                                 get_overall_rating(A.initial_reviews, A.reviews))
             b_skepticism == _calculate_skepticism(c, b_reviews,
                                 get_overall_rating(B.initial_reviews, B.reviews))
             investigated == a_skepticism.will_investigate \/ b_skepticism.will_investigate
             decision == Get(decision_result, "decision", "B")
             chosen_restaurant == IF decision = "A" THEN "A"
                                  ELSE IF decision = "B" THEN "B" ELSE "none"
         IN
         /\ cday' = [ CustomerDay(c.customer_id, day) EXCEPT
                        !.trace = @ \o << "EXPOSED", "ASSESSED" >>
                                    \o (IF investigated THEN << "INVESTIGATED" >> ELSE << >>)
                                    \o (IF chosen_restaurant = "none"
                                           THEN << "DECLINED_BOTH" >> ELSE << "DECIDED" >>),
                        !.exposed = [v \in Vendors |->
                                       IF v = "A" THEN a_reviews ELSE b_reviews],
                        !.oracle_failed = failed,
                        !.fallback_decisions =
                            IF failed
                               THEN { Get(r, "decision", "B") :
                                        r \in _generate_fallback(make_repeat_customer_decision_prompt) }
                               ELSE {},
                        !.decision = decision ]
         /\ IF chosen_restaurant = "none"
               THEN /\ todo' = Tail(todo)
                    /\ pc' = "customer"
               ELSE /\ todo' = todo
                    /\ pc' = "visit"
    /\ UNCHANGED <<storevars, dayvars, config, seed_file, day, customers, vendor, error>>

Last(s) == s[Len(s)]

\* the exception that ended the run: its type, the step that raised it and
\* the customer being processed (0 outside the customer loop)
Raised(type, at, customer_id) == [type |-> type, at |-> at, customer_id |-> customer_id]

\* repeat_customers: _customer_visits_restaurant and the lines of
\* _simulate_day after it, up to add_experience: the order, the experience,
\* the vendor's revenue and visit tracking, the day totals, the customer's
\* memory.  An exception unwinds _simulate_day and its day totals are lost.
_customer_visits_restaurant ==
    /\ config.engine = "repeat"
    /\ pc = "visit"
    /\ LET c == Head(todo)
           v == cday.decision
       IN
       \E failed \in BOOLEAN :
       \E menu_choice \in _call_llm(choose_menu_item_prompt, failed, MenuReplies) :
       \E stars_given \in ExperienceStars :
         IF ~Hashable(menu_choice)
            THEN /\ error' = Raised("TypeError", "_customer_visits_restaurant", c)
                 /\ pc' = "aborted"
                 /\ day_stats' = NoStats
                 /\ UNCHANGED <<vendor, customers, cday>>
            ELSE
              LET chosen_item == Get(menu_choice, "chosen_item", first_menu_item)
                  item_price == Get(vendor[v].menu, chosen_item, DEFAULT_PRICE)
                  experience ==
                      [ restaurant_id |-> v,
                        date |-> strftime(simulation_start_date + day - 1),
                        ordered_item |-> chosen_item,
                        stars_given |-> stars_given,
                        price_paid |-> item_price,
                        was_satisfied |-> stars_given >= 16,
                        review_text |-> "" ]
              IN
              /\ vendor' = [vendor EXCEPT ![v] =
                              add_daily_customer([@ EXCEPT !.revenue = @ + item_price],
                                                 day, c)]
              /\ day_stats' = [day_stats EXCEPT ![v].revenue = @ + item_price,
                                                 ![v].customers = @ + 1]
              /\ customers' = [customers EXCEPT ![c].experiences =
                                  add_experience(@, experience)]
              /\ cday' = [cday EXCEPT !.trace = Append(@, "VISITED"),
                                       !.ordered_item = chosen_item,
                                       !.price = item_price]
              /\ pc' = "review"
              /\ error' = error
    /\ UNCHANGED <<storevars, daily_results, config, seed_file, day, todo>>

\* repeat_customers: _customer_leaves_review, the last step of a customer
_customer_leaves_review ==
    /\ config.engine = "repeat"
    /\ pc = "review"
    /\ LET c == Head(todo)
           v == cday.decision
           experience == Last(customers[c].experiences)
           review == conf_review(experience.stars_given, simulation_start_date + day - 1)
       IN
       \E will_leave_review \in BOOLEAN :
         IF will_leave_review
            THEN /\ vendor' = [vendor EXCEPT ![v].reviews =
                                 Append(@, WithId(review, 100 + Len(@) + 1))]
                 /\ customers' = [customers EXCEPT
                                    ![c].experiences[Len(customers[c].experiences)].review_text
                                        = review.text]
                 /\ cday' = [cday EXCEPT !.trace = Append(@, "REVIEWED")]
            ELSE /\ cday' = [cday EXCEPT !.trace = Append(@, "SKIPPED_REVIEW")]
                 /\ UNCHANGED <<vendor, customers>>
    /\ todo' = Tail(todo)
    /\ pc' = "customer"
    /\ UNCHANGED <<storevars, dayvars, config, seed_file, day, error>>

\* repeat_customers: the end of _simulate_day: the day's statistics go back
\* to the loop over the days, which appends them to self.daily_results
EndDay ==
    /\ config.engine = "repeat"
    /\ pc = "customer"
    /\ todo = << >>
    /\ daily_results' = Append(daily_results,
                               [ day |-> day,
                                 total_customers |-> config.customers,
                                 restaurant_a_customers |-> day_stats["A"].customers,
                                 restaurant_b_customers |-> day_stats["B"].customers,
                                 restaurant_a_revenue |-> day_stats["A"].revenue,
                                 restaurant_b_revenue |-> day_stats["B"].revenue ])
    /\ pc' = "days"
    /\ cday' = None
    /\ UNCHANGED <<storevars, day_stats, config, seed_file, day, todo, customers, vendor, error>>

\* repeat_customers: _calculate_and_save_results, after the last day
_calculate_and_save_results ==
    /\ config.engine = "repeat"
    /\ pc = "days"
    /\ day = config.days
    /\ pc' = "done"
    /\ UNCHANGED <<storevars, dayvars, config, seed_file, day, todo, cday, customers, vendor, error>>

NextRepeat ==
    \/ _initialize_restaurants
    \/ _generate_repeat_customers
    \/ BeginDay
    \/ _customer_makes_choice
    \/ _customer_visits_restaurant
    \/ _customer_leaves_review
    \/ EndDay
    \/ _calculate_and_save_results

InitRepeat == InitEngines({"repeat"})

SpecRepeat == InitRepeat /\ [][NextRepeat]_vars

\* ------------------------------------------- research_implementation runs
make_decision_prompt == {"review"}

\* RestaurantSimulation.__init__: _load_shared_reviews; a missing file leaves
\* both vendors without initial reviews
_load_shared_reviews ==
    /\ config.engine = "run_day"
    /\ pc = "init"
    /\ vendor' = [v \in Vendors |->
                    [vendor[v] EXCEPT !.initial_reviews =
                        IF seed_file["A"] /\ seed_file["B"]
                            THEN RunSeedFile(v) ELSE << >>]]
    /\ pc' = "days"
    /\ UNCHANGED <<storevars, dayvars, config, seed_file, day, todo, cday, customers, error>>

\* run_simulation / run_day: the next day starts
run_day_begin ==
    /\ config.engine = "run_day"
    /\ pc = "days"
    /\ day < config.days
    /\ day' = day + 1
    /\ todo' = [i \in 1..config.customers |-> i]
    /\ cday' = None
    /\ pc' = "customer"
    /\ UNCHANGED <<storevars, dayvars, config, seed_file, customers, vendor, error>>

\* run_day: one pass of the customer loop, the whole try block.  The sample
\* and skepticism steps before the decision change no state and raise only
\* inside the try block; an exception of any step is caught by the except
\* clause and the loop continues.  The price is added to the revenue before
\* the review is generated and built (review_data["stars"]).
run_day_customer ==
    /\ config.engine = "run_day"
    /\ pc = "customer"
    /\ todo # << >>
    /\ \E failed \in BOOLEAN :
       \E decision \in _call_llm(make_decision_prompt, failed, DecisionReplies) :
       \E menu_failed \in BOOLEAN :
       \E menu_choice \in _call_llm(choose_menu_item_prompt, menu_failed, MenuReplies) :
       \E random_choice \in DOMAIN RESTAURANT_MENU :
       \E review_failed \in BOOLEAN :
       \E review_data \in _call_llm(generate_review_prompt, review_failed, ReviewReplies) :
         LET asked == [ CustomerDay(Head(todo), day) EXCEPT
                          !.trace = @ \o << "EXPOSED", "ASSESSED" >>,
                          !.oracle_failed = failed,
                          !.fallback_decisions =
                              IF failed
                                 THEN { Get(r, "decision", "KeyError") :
                                          r \in _generate_fallback(make_decision_prompt) }
                                 ELSE {} ]
         IN
         IF "decision" \notin DOMAIN decision
            THEN /\ cday' = [asked EXCEPT !.caught = "KeyError"]
                 /\ vendor' = vendor
         ELSE
           LET restaurant == IF decision.decision = "A" THEN "A" ELSE "B"
               decided == [asked EXCEPT !.decision = decision.decision,
                                        !.trace = Append(@, "DECIDED")]
           IN
           IF ~Hashable(menu_choice)
              THEN /\ cday' = [decided EXCEPT !.caught = "TypeError"]
                   /\ vendor' = vendor
           ELSE
             LET chosen_item == Get(menu_choice, "chosen_item", "")
                 ordered_item == IF chosen_item \notin DOMAIN vendor[restaurant].menu
                                    THEN random_choice ELSE chosen_item
                 price == vendor[restaurant].menu[ordered_item]
                 visited == [decided EXCEPT !.trace = Append(@, "VISITED"),
                                            !.ordered_item = ordered_item,
                                            !.price = price]
             IN
             IF "stars" \notin DOMAIN review_data
                THEN /\ cday' = [visited EXCEPT !.caught = "KeyError"]
                     /\ vendor' = [vendor EXCEPT ![restaurant].revenue = @ + price]
             ELSE
               LET review == [stars |-> review_data.stars, date |-> strftime(Now),
                              text |-> review_data.text]
               IN
               /\ cday' = [visited EXCEPT !.trace = Append(@, "REVIEWED")]
               /\ vendor' = [vendor EXCEPT
                               ![restaurant].revenue = @ + price,
                               ![restaurant].reviews =
                                   Append(@, WithId(review, 100 + Len(@) + 1))]
    /\ todo' = Tail(todo)
    /\ UNCHANGED <<storevars, dayvars, config, seed_file, pc, day, customers, error>>

\* run_day: after the customer loop
run_day_end ==
    /\ config.engine = "run_day"
    /\ pc = "customer"
    /\ todo = << >>
    /\ pc' = "days"
    /\ cday' = None
    /\ UNCHANGED <<storevars, dayvars, config, seed_file, day, todo, customers, vendor, error>>

\* run_simulation: _save_results after the last day
_save_results ==
    /\ config.engine = "run_day"
    /\ pc = "days"
    /\ day = config.days
    /\ pc' = "done"
    /\ UNCHANGED <<storevars, dayvars, config, seed_file, day, todo, cday, customers, vendor, error>>

\* the contents of data/inputs/initial_reviews_a.json and _b.json: each file
\* holds one of the two seed lists
ConfSeedFiles == { [v \in Vendors |-> RunSeedFile(f[v])] : f \in [Vendors -> Vendors] }

\* run_conf_experiment: _initialize_conf_reviews(restaurant_a), then
\* (restaurant_b).  With the file missing, the fallback loop calls
\* add_conf_review(customer_id, true_quality, None, initial_date): one
\* argument more than Restaurant.add_conf_review takes, a TypeError that
\* nothing catches.
_initialize_conf_reviews ==
    /\ config.engine = "competitive"
    /\ pc = "init"
    /\ IF seed_file["A"] /\ seed_file["B"]
          THEN /\ \E files \in ConfSeedFiles :
                    vendor' = [v \in Vendors |->
                                 [vendor[v] EXCEPT !.initial_reviews = files[v],
                                                   !.reviews = << >>]]
               /\ pc' = "days"
               /\ error' = error
          ELSE /\ vendor' = [vendor EXCEPT !["A"].initial_reviews =
                               IF seed_file["A"] THEN RunSeedFile("A") ELSE @]
               /\ pc' = "aborted"
               /\ error' = Raised("TypeError", "_initialize_conf_reviews", 0)
    /\ UNCHANGED <<storevars, dayvars, config, seed_file, day, todo, cday, customers>>

\* _run_competitive_conf_simulation: the next day of the loop over the days
competitive_begin_day ==
    /\ config.engine = "competitive"
    /\ pc = "days"
    /\ day < config.days
    /\ day' = day + 1
    /\ todo' = [i \in 1..config.customers |-> i]
    /\ cday' = None
    /\ pc' = "customer"
    /\ UNCHANGED <<storevars, dayvars, config, seed_file, customers, vendor, error>>

\* Config.CONF_PRIOR_ALPHA, CONF_PRIOR_BETA (1.0, 1.0)
CONF_PRIOR == [alpha |-> 1, beta |-> 1]

\* np.random.normal(CONF_THETA_MEAN, CONF_THETA_STD): draws of theta
Thetas == {0 - 50, 0 - 30, 50}

\* _generate_conf_customer with CUSTOMER_CRITICALITY "medium": theta, the
\* prior and a personality of the medium list
ConfCustomers(customer_id) ==
    { [ customer_id |-> customer_id, theta |-> theta, alpha |-> CONF_PRIOR.alpha,
        beta |-> CONF_PRIOR.beta, personality |-> {personality},
        criticality |-> "medium" ] : theta \in Thetas,
                                     personality \in {"balanced", "discerning"} }

\* mutant: the update keeps its posterior in the customer's alpha and beta
StoredPosterior(c, rs) ==
    [ c EXCEPT !.alpha = @ + positive_reviews(rs),
               !.beta = @ + (Len(rs) - positive_reviews(rs)) ]

\* Customer.update_belief_beta_bernoulli: the customer after the call; the
\* method assigns to locals only
customer_after_update(c, rs) == c

\* Customer.get_valuation_estimate: theta + mu_estimate * 80, as a fraction
get_valuation_estimate(c, mu_estimate) ==
    Rating(c.theta * mu_estimate.den + 80 * mu_estimate.num, mu_estimate.den)

\* a < b for fractions with positive denominators
RatingLess(a, b) == a.num * b.den < b.num * a.den

\* the rating comparison of _evaluate_restaurant_for_customer for a sample
evaluation_rating_comparison(restaurant, initial) ==
    _compare_ratings(reviews_read_rating(initial),
        restaurant_overall_rating(get_overall_rating(restaurant.initial_reviews,
                                                     restaurant.reviews)),
        Len(initial),
        get_review_count(restaurant.initial_reviews, restaurant.reviews))

\* _evaluate_restaurant_for_customer from the skepticism result on: the
\* decision, with the customer as the calls of update_belief_beta_bernoulli
\* leave them
evaluation_decision(c, restaurant, chosen_item, initial, is_skeptical, additional) ==
    LET prior(cust) == [alpha |-> cust.alpha, beta |-> cust.beta]
        c1 == customer_after_update(c, initial)
        reviews_seen == IF is_skeptical THEN initial \o additional ELSE initial
        mu_estimate == IF is_skeptical
                          THEN update_belief_beta_bernoulli(prior(c1), reviews_seen)
                          ELSE update_belief_beta_bernoulli(prior(c), initial)
        c2 == IF is_skeptical THEN customer_after_update(c1, reviews_seen) ELSE c1
        valuation_estimate == get_valuation_estimate(c, mu_estimate)
        item_price == restaurant.menu[chosen_item]
    IN  [ restaurant_evaluated |-> restaurant.restaurant_id,
          chosen_item |-> chosen_item,
          item_price |-> item_price,
          reviews_seen |-> reviews_seen,
          mu_estimate |-> mu_estimate,
          valuation_estimate |-> valuation_estimate,
          expected_utility |-> Rating(valuation_estimate.num
                                        - item_price * valuation_estimate.den,
                                      valuation_estimate.den),
          will_purchase |-> RatingLess(Rating(item_price, 1), valuation_estimate),
          is_skeptical |-> is_skeptical,
          customer |-> c2 ]

\* _evaluate_restaurant_for_customer as a function of the customer and the
\* vendor: the decisions it may return for the draws of the menu item, the
\* samples and the will_investigate of _assess_skepticism
evaluate_restaurant(c, restaurant) ==
    LET init == restaurant.initial_reviews
        revs == restaurant.reviews
        policy == restaurant.review_policy
        samples(limit) == get_conf_reviews_for_customer(init, revs, policy, limit)
    IN  UNION { UNION { UNION {
          { evaluation_decision(c, restaurant, chosen_item, initial,
                                skepticism_result.will_investigate, additional)
            : additional \in (IF skepticism_result.will_investigate
                                 THEN samples(CONF_SKEPTICAL_REVIEWS)
                                 ELSE { << >> }) }
          : skepticism_result \in
              _assess_skepticism(c, initial,
                                 evaluation_rating_comparison(restaurant, initial)) }
          : initial \in samples(CONF_LIMITED_ATTENTION) }
          : chosen_item \in DOMAIN restaurant.menu }

\* _customer_chooses_restaurant: A is evaluated, then B; A is chosen when its
\* expected utility is the higher one, B otherwise
_customer_chooses_restaurant(c, restaurant_a, restaurant_b) ==
    UNION { { [ restaurant_choice |->
                    IF RatingLess(b.expected_utility, a.expected_utility)
                        THEN "A" ELSE "B",
                evaluation |-> [v \in Vendors |-> IF v = "A" THEN a ELSE b],
                customer |-> b.customer ]
              : b \in evaluate_restaurant(a.customer, restaurant_b) }
            : a \in evaluate_restaurant(c, restaurant_a) }

\* _run_competitive_conf_simulation: one pass of the customer loop.  The
\* customer is generated and picks a vendor (_customer_chooses_restaurant);
\* on a purchase the revenue is added and add_conf_review is called with
\* four arguments, which raises TypeError outside any try block.
competitive_customer ==
    /\ config.engine = "competitive"
    /\ pc = "customer"
    /\ todo # << >>
    /\ \E c \in ConfCustomers(Head(todo)) :
       \E choice \in _customer_chooses_restaurant(c, vendor["A"], vendor["B"]) :
         LET restaurant_choice == choice.restaurant_choice
             decision_data == choice.evaluation[restaurant_choice]
             item_price == decision_data.item_price
             chosen == [ CustomerDay(Head(todo), day) EXCEPT
                           !.trace = @ \o << "EXPOSED", "ASSESSED", "DECIDED" >>,
                           !.decision = restaurant_choice,
                           !.ordered_item = decision_data.chosen_item,
                           !.price = item_price,
                           !.created = c,
                           !.conf_customer = choice.customer,
                           !.evaluation = choice.evaluation ]
         IN
         IF decision_data.will_purchase
            THEN /\ vendor' = [vendor EXCEPT ![restaurant_choice].revenue = @ + item_price]
                 /\ cday' = [chosen EXCEPT !.trace = Append(@, "VISITED")]
                 /\ error' = Raised("TypeError", "add_conf_review", Head(todo))
                 /\ pc' = "aborted"
                 /\ todo' = todo
            ELSE /\ cday' = chosen
                 /\ todo' = Tail(todo)
                 /\ UNCHANGED <<vendor, error, pc>>
    /\ UNCHANGED <<storevars, dayvars, config, seed_file, day, customers>>

\* _run_competitive_conf_simulation: the end-of-day summary
competitive_end_day ==
    /\ config.engine = "competitive"
    /\ pc = "customer"
    /\ todo = << >>
    /\ pc' = "days"
    /\ cday' = None
    /\ UNCHANGED <<storevars, dayvars, config, seed_file, day, todo, customers, vendor, error>>

\* run_conf_experiment: the results are computed and saved
_save_competitive_conf_results ==
    /\ config.engine = "competitive"
    /\ pc = "days"
    /\ day = config.days
    /\ pc' = "done"
    /\ UNCHANGED <<storevars, dayvars, config, seed_file, day, todo, cday, customers, vendor, error>>

NextRun ==
    \/ NextRepeat
    \/ _load_shared_reviews
    \/ run_day_begin
    \/ run_day_customer
    \/ run_day_end
    \/ _save_results
    \/ _initialize_conf_reviews
    \/ competitive_begin_day
    \/ competitive_customer
    \/ competitive_end_day
    \/ _save_competitive_conf_results

InitRun == InitEngines(Engines)

SpecRun == InitRun /\ [][NextRun]_vars

\* the program keeps executing: a step that can be taken is taken
SpecRunFair == SpecRun /\ WF_vars(NextRun)

\* ------------------------------------------------------------- run claims
Range(s) == { s[i] : i \in DOMAIN s }

\* C13 as stated: an exception raised while one customer is processed never
\* ends the day or the run: no run is ever aborted by an exception that was
\* raised inside the customer loop.
C13_CustomerExceptionContained ==
    pc = "aborted" => error.customer_id = 0

\* C14 as stated: when the oracle call for the vendor decision fails, the
\* fallback can give A and can give B and nothing else, the customer has a
\* decision for A or B, no exception was raised for it, and the customer-day
\* goes on towards the visit.
C14_OracleFailureRecovered ==
    (cday # None /\ cday.oracle_failed) =>
        /\ cday.fallback_decisions = {"A", "B"}
        /\ cday.decision \in {"A", "B"}
        /\ cday.caught = "none"
        /\ "DECIDED" \in Range(cday.trace)

\* the customer-day's decision is an answer other than A and B
Declined(cd) == cd # None /\ cd.decision \notin {"A", "B", "none"}

\* C15 as stated: a step that leaves a customer-day with a decision that is
\* neither A nor B changes no vendor (revenue, visit log, visit count,
\* review store) and no customer's experience log.
C15_DeclineBothFrame ==
    [][ Declined(cday') => (vendor' = vendor /\ customers' = customers) ]_vars

\* an order (item, price) is an item of the vendor's menu at its menu price
ValidOrder(restaurant_id, item, price) ==
    /\ item \in DOMAIN vendor[restaurant_id].menu
    /\ price = vendor[restaurant_id].menu[item]

\* C16 as stated: every order recorded for a visit (in the customer-day and
\* in the customer's experience log) names an item of the chosen vendor's
\* menu, and the recorded price is that item's menu price.
C16_RecordedOrderValid ==
    /\ (cday # None /\ "VISITED" \in Range(cday.trace)) =>
           ValidOrder(IF cday.decision = "A" THEN "A" ELSE "B",
                      cday.ordered_item, cday.price)
    /\ \A c \in DOMAIN customers :
         \A i \in DOMAIN customers[c].experiences :
            LET e == customers[c].experiences[i]
            IN  ValidOrder(e.restaurant_id, e.ordered_item, e.price_paid)

\* the reviews of a vendor's store dated before the simulation start
DatedBeforeStart(restaurant) ==
    LET all_reviews == get_all_reviews(restaurant.initial_reviews, restaurant.reviews)
    IN  { i \in DOMAIN all_reviews :
            strptime(all_reviews[i].date) < simulation_start_date }

\* C17 as stated: once initialization is over, a vendor whose seed file is
\* missing has 20 reviews dated before the simulation start in its store,
\* and initialization did not raise.
C17_MissingSeedFallback ==
    \A v \in Vendors :
        (pc # "init" /\ ~seed_file[v]) =>
            /\ ~(pc = "aborted" /\ error.at = "_initialize_conf_reviews")
            /\ Cardinality(DatedBeforeStart(vendor[v])) = FALLBACK_REVIEWS

\* C18 as stated: every run reaches the step that writes the results file.
C18_RunCompletes == <>(pc = "done")

\* what an entry of the experience log is compared on: vendor, stars and
\* satisfaction
Entry(e) ==
    [ restaurant_id |-> e.restaurant_id, stars_given |-> e.stars_given,
      was_satisfied |-> e.was_satisfied ]

\* the experience log of customer c in the customers cs
Log(cs, c) == [i \in 1..Len(cs[c].experiences) |-> Entry(cs[c].experiences[i])]

IsPrefix(s, t) == Len(s) <= Len(t) /\ SubSeq(t, 1, Len(s)) = s

\* the days on which customer c visited a vendor, from the vendors' logs
VisitDays(c) ==
    { d \in 1..day : \E v \in Vendors :
          /\ d \in DOMAIN vendor[v].daily_customers
          /\ c \in Range(vendor[v].daily_customers[d]) }

\* C19: the experience log of every customer is append-only: each step
\* keeps the log so far as a prefix of the new log (same vendor, stars and
\* satisfaction per entry, same order), and the log has exactly one entry
\* for each day on which the customer visited a vendor, so that a day on
\* which the customer declines both adds none.
C19_AppendOnlyLog ==
    /\ [][ \A c \in DOMAIN customers :
              IsPrefix(Log(customers, c), Log(customers', c)) ]_vars
    /\ [](\A c \in DOMAIN customers :
              Len(customers[c].experiences) = Cardinality(VisitDays(c)))

\* C19 witness: on the second day a customer has visited twice, with a
\* different outcome each day, and the log holds the two entries in the
\* order of the visits
C19_Witness ==
    /\ config.engine = "repeat"
    /\ day = 2
    /\ \E c \in DOMAIN customers :
         /\ Len(customers[c].experiences) = 2
         /\ Entry(customers[c].experiences[1]) # Entry(customers[c].experiences[2])
         /\ customers[c].experiences[1].date = strftime(simulation_start_date)
         /\ customers[c].experiences[2].date = strftime(simulation_start_date + 1)

\* a customer who visited on the first day declines both on the second: the
\* log keeps its one entry
C19_WitnessDecline ==
    /\ config.engine = "repeat"
    /\ day = 2
    /\ Declined(cday)
    /\ Len(customers[cday.customer_id].experiences) = 1

\* the daily decision state machine: the states that may follow a state
Successors(state) ==
    CASE state = "ARRIVED" -> {"EXPOSED"}
      [] state = "EXPOSED" -> {"ASSESSED"}
      [] state = "ASSESSED" -> {"INVESTIGATED", "DECIDED", "DECLINED_BOTH"}
      [] state = "INVESTIGATED" -> {"DECIDED", "DECLINED_BOTH"}
      [] state = "DECIDED" -> {"VISITED"}
      [] state = "VISITED" -> {"REVIEWED", "SKIPPED_REVIEW"}
      [] OTHER -> {}

Terminal == {"REVIEWED", "SKIPPED_REVIEW", "DECLINED_BOTH"}

FollowsStateMachine(trace) ==
    /\ trace[1] = "ARRIVED"
    /\ \A i \in 1..(Len(trace) - 1) : trace[i + 1] \in Successors(trace[i])

\* the processing of the customer-day in cday is over: the orchestrator is
\* not between the decision and the review
CustomerDayOver == pc \notin {"visit", "review"}

\* C20 as stated: the states of a customer-day follow the daily decision
\* state machine with no backward transition, and a customer-day whose
\* processing is over is in REVIEWED, SKIPPED_REVIEW or DECLINED_BOTH.
C20_DailyStateMachine ==
    cday # None =>
        /\ FollowsStateMachine(cday.trace)
        /\ CustomerDayOver => Last(cday.trace) \in Terminal

\* ------------------------------------------ the post-investigation resolvers
\* personalities of the customer generators that the resolvers tell apart
InvestigationPersonalities ==
    { {}, {"analytical"}, {"picky"}, {"strict"}, {"discerning"}, {"shy"},
      {"analytical", "picky"} }

InvestigationCustomers ==
    [personality : InvestigationPersonalities, criticality : {"medium", "critical"}]

\* the first samples a customer was shown before investigating: three recent
\* five-star reviews, and a sample with a bad date and an old low review
InitialSamples ==
    { [i \in 1..3 |-> WithId(SampleChoices[1], i)],
      << WithId(SampleChoices[1], 1), WithId(SampleChoices[4], 2),
         WithId(SampleChoices[5], 3) >> }

\* the resolvers are called under "if a_skepticism['will_investigate']"
ResearchInitialSkepticisms(c) ==
    { a \in UNION { _assess_skepticism(c, s, None) : s \in InitialSamples } :
        a.will_investigate }

RepeatInitialSkepticisms(c) ==
    { a \in { _calculate_skepticism(c, s, o) : s \in InitialSamples,
                                                  o \in OverallRatings } :
        a.will_investigate }

PostInvestigation(resolved, confidence_change, ongoing_doubt, reason) ==
    [ resolved |-> resolved, confidence_change |-> confidence_change,
      ongoing_doubt |-> ongoing_doubt, reason |-> reason ]

\* the default case at the end of _assess_post_investigation_effects
general_case(initial_skepticism, additional_reviews) ==
    IF SumStars(additional_reviews) >= 14 * Len(additional_reviews)
        THEN PostInvestigation(TRUE, Max(0, initial_skepticism.confidence_impact + 15),
                               FALSE, "general_concerns_addressed")
        ELSE PostInvestigation(FALSE, initial_skepticism.confidence_impact - 10,
                               TRUE, "additional_reviews_concerning")

\* research_implementation (and reviews_orientation)
\* _assess_post_investigation_effects: the set of dicts it may return;
\* confidence_change in hundredths; doubt_persists is random.random() < 0.7
_assess_post_investigation_effects(c, initial_skepticism, additional_reviews) ==
    LET n == Len(additional_reviews)
        total == SumStars(additional_reviews)
        has_negative_reviews == \E i \in 1..n : additional_reviews[i].stars <= 8
        personality == c.personality
        general == general_case(initial_skepticism, additional_reviews)
    IN  IF additional_reviews = << >>
            THEN { PostInvestigation(FALSE, initial_skepticism.confidence_impact, TRUE,
                                     "no_additional_reviews_found") }
        ELSE IF HasTrait(personality, {"analytical", "meticulous"})
            THEN IF has_negative_reviews /\ total < 14 * n
                     THEN { PostInvestigation(TRUE, 0 - 20, FALSE,
                                              "analytical_confirmed_concerns") }
                 ELSE IF total >= 16 * n
                     THEN { PostInvestigation(TRUE, 10, FALSE,
                                              "analytical_concerns_resolved") }
                 ELSE { general }
        ELSE IF HasTrait(personality, {"picky", "strict"})
            THEN { PostInvestigation(FALSE, initial_skepticism.confidence_impact - 10,
                                     TRUE, "picky_never_satisfied") }
        ELSE IF HasTrait(personality, {"discerning"})
            THEN IF total >= 18 * n
                     THEN { PostInvestigation(TRUE, 5, FALSE,
                                              "discerning_quality_confirmed") }
                     ELSE { PostInvestigation(FALSE, initial_skepticism.confidence_impact,
                                              TRUE, "discerning_quality_insufficient") }
        ELSE IF HasTrait(personality, {"shy", "reserved", "thoughtful"})
            THEN { IF doubt_persists
                       THEN PostInvestigation(FALSE,
                                initial_skepticism.confidence_impact - 5, TRUE,
                                "anxious_persistent_worry")
                       ELSE general : doubt_persists \in BOOLEAN }
        ELSE { general }

\* repeat_customers _post_investigation_assessment: the dict it returns, with
\* the keys resolved, reason and ongoing_doubt; additional_variance > 0.5
_post_investigation_assessment(initial_skepticism, additional_reviews) ==
    LET n == Len(additional_reviews)
        total == SumStars(additional_reviews)
    IN  IF additional_reviews = << >>
            THEN [ resolved |-> TRUE, reason |-> "no_additional_reviews_available",
                   ongoing_doubt |-> FALSE ]
        ELSE IF n * SumSquares(additional_reviews) - total * total > 8 * n * n
            THEN [ resolved |-> TRUE, reason |-> "additional_reviews_show_variation",
                   ongoing_doubt |-> FALSE ]
        ELSE [ resolved |-> FALSE,
               reason |-> "additional_reviews_confirm_suspicious_pattern",
               ongoing_doubt |-> TRUE ]

\* the customer and the additional sample (shown) of one investigation
InitInvestigate ==
    /\ initial_reviews = << >>
    /\ reviews = << >>
    /\ review_policy = "highest_rating"
    /\ customer \in InvestigationCustomers
    /\ shown \in Samples
    /\ ret = NoCall
    /\ NoRun

\* a call of _assess_post_investigation_effects(customer, skepticism, shown, id)
AssessPostInvestigationEffects ==
    /\ \E initial_skepticism \in ResearchInitialSkepticisms(customer) :
         \E result \in _assess_post_investigation_effects(customer, initial_skepticism,
                                                          shown) :
            ret' = [op |-> "_assess_post_investigation_effects",
                    confidence_impact |-> initial_skepticism.confidence_impact,
                    result |-> result]
    /\ UNCHANGED <<runvars, initial_reviews, reviews, review_policy, customer, shown>>

\* a call of _post_investigation_assessment(skepticism, shown)
PostInvestigationAssessment ==
    /\ \E initial_skepticism \in RepeatInitialSkepticisms(customer) :
          ret' = [op |-> "_post_investigation_assessment",
                  confidence_impact |-> initial_skepticism.confidence_impact,
                  result |-> _post_investigation_assessment(initial_skepticism, shown)]
    /\ UNCHANGED <<runvars, initial_reviews, reviews, review_policy, customer, shown>>

NextInvestigate ==
    \/ AssessPostInvestigationEffects
    \/ PostInvestigationAssessment

SpecInvestigate == InitInvestigate /\ [][NextInvestigate]_vars

\* ---------------------------------------------------- investigation claims
Resolvers == {"_assess_post_investigation_effects", "_post_investigation_assessment"}

ResolverReturned == ret.op \in Resolvers

\* C21: whenever a resolver is called with an empty additional sample, the
\* result is unresolved, doubt persists and the confidence value is the
\* initial assessment's confidence impact
C21_EmptyAdditionalUnresolved ==
    (ResolverReturned /\ shown = << >>) =>
        /\ ret.result.resolved = FALSE
        /\ ret.result.ongoing_doubt = TRUE
        /\ "confidence_change" \in DOMAIN ret.result
        /\ ret.result.confidence_change = ret.confidence_impact

Picky == HasTrait(customer.personality, {"picky", "strict"})

\* C22: for a customer of the picky group (picky or strict) every resolver
\* result is unresolved and carries a confidence value strictly below the
\* initial confidence impact
C22_PickyNeverSatisfied ==
    (ResolverReturned /\ Picky) =>
        /\ ret.result.resolved = FALSE
        /\ "confidence_change" \in DOMAIN ret.result
        /\ ret.result.confidence_change < ret.confidence_impact

\* ---------------------------------------------------------- order of steps
\* the step of _simulate_day that exposes the samples to the next customer
Exposure ==
    /\ pc = "customer"
    /\ todo # << >>
    /\ cday' # None
    /\ cday'.customer_id = Head(todo)

\* the customer-day in cday ended with a review left on this day
LeftReviewToday == cday # None /\ cday.day = day /\ Last(cday.trace) = "REVIEWED"

\* the review the customer of cday left is the newest entry of the store
\* of the vendor they visited
ReviewInStore ==
    LET store == vendor[cday.decision].reviews
        experience == Last(customers[cday.customer_id].experiences)
    IN  /\ store # << >>
        /\ Last(store).date = strftime(simulation_start_date + cday.day - 1)
        /\ Last(store).stars = experience.stars_given

\* the sample is selected from the store as it stands: it has the length
\* the store allows and begins with the store's first review under the
\* vendor's policy (the highest stars, or the newest date)
SelectedFromStore(sample, restaurant) ==
    LET store == get_all_reviews(restaurant.initial_reviews, restaurant.reviews)
    IN  /\ Len(sample) = Min(LIMITED_ATTENTION, Len(store))
        /\ \A i \in 1..Len(sample) : \E j \in 1..Len(store) : store[j] = sample[i]
        /\ sample # << >> =>
              \A j \in 1..Len(store) :
                 IF restaurant.review_policy = "highest_rating"
                    THEN store[j].stars <= sample[1].stars
                    ELSE ~StrLess(sample[1].date, store[j].date)

\* C23: customers are processed one after another within a day.  When the
\* samples of the next customer are exposed, the customer before them has
\* finished (their customer-day is in a final state), a review they left is
\* in the store, and each sample is selected from the store as it stands
\* then; a vendor changes only in the visit and review steps of the one
\* customer being processed.
C23_SequentialProcessing ==
    /\ [][ Exposure =>
             /\ cday # None => Last(cday.trace) \in Terminal
             /\ LeftReviewToday => ReviewInStore
             /\ \A v \in Vendors : SelectedFromStore(cday'.exposed[v], vendor[v])
         ]_vars
    /\ [][ (vendor' # vendor /\ pc # "init") =>
             /\ pc \in {"visit", "review"}
             /\ cday.customer_id = Head(todo)
             /\ todo' \in {todo, Tail(todo)}
         ]_vars

\* a customer is about to visit after seeing, in vendor B's sample, a review
\* that an earlier customer left on the same day
C23_Witness ==
    /\ config # None
    /\ config.engine = "repeat"
    /\ pc = "visit"
    /\ \E i \in 1..Len(cday.exposed["B"]) :
          cday.exposed["B"][i].date = strftime(simulation_start_date + day - 1)

\* ------------------------------------------------------- comparison claims
\* a customer evaluation of the competitive run that reached the rating
\* comparison of _assess_skepticism
Compared ==
    /\ ret.op = "_evaluate_restaurant_for_customer"
    /\ "rating_comparison_modifier" \in DOMAIN ret.skepticism

\* |mean(shown) - aggregate| >= 1.0 for the sample and the vendor rating of
\* the evaluation in ret
MismatchAtLeastOneStar ==
    AbsDiffAtLeast(reviews_read_rating(ret.initial),
                   restaurant_overall_rating(get_overall_rating(initial_reviews, reviews)),
                   4, 1)

\* C24: the rating comparison adds 0 to the skepticism score when
\* |mean(shown) - aggregate| < 1.0 and 2 or 3, never more, when the
\* difference is at least 1.0
C24_MismatchWeightBounded ==
    Compared =>
        IF MismatchAtLeastOneStar
            THEN ret.skepticism.rating_comparison_modifier \in {2, 3}
            ELSE ret.skepticism.rating_comparison_modifier = 0

\* --------------------------------------------------------- timestamp claims
\* the reviews of a sample whose date parses
ParseableReviews(rs) == SelectSeq(rs, LAMBDA r : IsParseable(r.date))

\* the recency signals of the research assessor when the reviews whose date
\* does not parse are left out of the recency analysis
RecencyOfParseable(rs) ==
    IF ParseableReviews(rs) = << >> THEN << >>
    ELSE LET parsed == ParseableReviews(rs)
             recent == most_recent_date(parsed)
         IN  (IF recent < current_sim_date - 365
                  THEN << Signal("very_outdated_reviews", 3) >>
              ELSE IF recent < current_sim_date - 180
                  THEN << Signal("outdated_reviews", 1) >>
              ELSE << >>)
             \o
             (IF Len(rs) >= 5 /\ recent - oldest_date(parsed) <= 7
                  THEN << Signal("suspicious_review_clustering", 2) >>
                  ELSE << >>)

\* the research score of a sample without any contribution of the reviews
\* whose date does not parse
ScoreWithoutBadDates(c, rs, rating_comparison) ==
    Max(0, SumPoints(FiveStarSignals(rs) \o NoNegativeSignals(rs)
                       \o RecencyOfParseable(rs) \o SampleSizeSignals(rs)
                       \o DiversitySignals(rs))
             + personality_modifier(c) + criticality_modifier(c)
             + SumPoints(RatingComparisonSignals(rating_comparison)))

BadDateShown == shown # << >> /\ ~AllParseable(shown)

\* C25: for a shown sample in which some date does not parse, the research
\* and repeat-customer assessors and the investigate-or-not test of
\* vertical_differentiation return a result (strptime's ValueError does not
\* leave them), and the review with the bad date adds nothing to the score
C25_BadTimestampRecovered ==
    BadDateShown =>
        /\ ret.op = "_should_investigate_further" =>
              ~("raised" \in DOMAIN ret.outcome /\ ret.outcome.at = "strptime")
        /\ ret.op = "_assess_skepticism" =>
              /\ \A i \in 1..Len(ret.assessment.concerns) :
                    ret.assessment.concerns[i] # "date_parsing_issues"
              /\ ret.assessment.score
                    = ScoreWithoutBadDates(customer, shown, ret.rating_comparison)
        /\ ret.op = "_calculate_skepticism" =>
              "outdated_feedback" \notin ret.assessment.concerns

\* ------------------------------------------------- competitive run claims
\* a pass of the customer loop of the competitive run
CompetitiveStep ==
    /\ config.engine = "competitive"
    /\ pc = "customer"
    /\ todo # << >>
    /\ cday' # None
    /\ cday'.customer_id = Head(todo)
    /\ cday'.evaluation # << >>

\* valuation_estimate - item_price of a decision
Utility(d) ==
    Rating(d.valuation_estimate.num - d.item_price * d.valuation_estimate.den,
           d.valuation_estimate.den)

\* the vendor with the strictly higher expected utility, B when equal
HigherUtility(evaluation) ==
    IF RatingLess(Utility(evaluation["B"]), Utility(evaluation["A"])) THEN "A" ELSE "B"

Buys(d) == d.valuation_estimate.num > d.item_price * d.valuation_estimate.den

\* the customer is assigned to the vendor of the higher expected utility
AssignedByUtility == cday'.decision = HigherUtility(cday'.evaluation)

\* a purchase is a revenue increment and an appended review at the chosen
\* vendor, and it happens exactly when valuation_estimate > item_price
PurchaseRecorded ==
    LET v == cday'.decision
        d == cday'.evaluation[v]
    IN  IF Buys(d)
           THEN /\ vendor'[v].revenue = vendor[v].revenue + d.item_price
                /\ Len(vendor'[v].reviews) = Len(vendor[v].reviews) + 1
                /\ \A w \in Vendors \ {v} : vendor'[w] = vendor[w]
           ELSE vendor' = vendor

\* C26: in the competitive run each customer goes to the vendor with the
\* strictly higher expected utility (B when equal); a purchase there (the
\* revenue increment and the appended review) happens if and only if
\* valuation_estimate > item_price, and a customer who does not purchase
\* changes neither revenue nor the review store
C26_UtilityChoiceAndPurchase ==
    [][ CompetitiveStep => (AssignedByUtility /\ PurchaseRecorded) ]_vars

\* theta and the Beta prior of a customer
Belief(c) == [theta |-> c.theta, alpha |-> c.alpha, beta |-> c.beta]

\* the customer of the competitive run in cday has been evaluated
Evaluated == cday # None /\ cday.evaluation # << >>

\* C27: theta and the Beta prior of a customer never change after creation:
\* after the evaluations of both vendors the generated customer holds the
\* values they were created with, the posterior mean of each vendor is the
\* update of the creation prior with the reviews read for that vendor alone,
\* and no step of a run changes the theta, alpha or beta of a repeat customer
C27_PriorFixed ==
    /\ [](Evaluated =>
            /\ Belief(cday.conf_customer) = Belief(cday.created)
            /\ \A v \in Vendors :
                  cday.evaluation[v].mu_estimate
                    = update_belief_beta_bernoulli(
                          [alpha |-> cday.created.alpha, beta |-> cday.created.beta],
                          cday.evaluation[v].reviews_seen))
    /\ [][ \A i \in DOMAIN customers \cap DOMAIN customers' :
               Belief(customers'[i]) = Belief(customers[i]) ]_vars

\* a generated customer investigated vendor A, whose reviews hold a positive
\* one, and then read reviews of vendor B
C27_Witness ==
    /\ Evaluated
    /\ cday.evaluation["A"].is_skeptical
    /\ positive_reviews(cday.evaluation["A"].reviews_seen) > 0
    /\ Len(cday.evaluation["B"].reviews_seen) > 0

\* ------------------------------------------------------- C28 bookkeeping
\* the sum of f over the indices in S
RECURSIVE SumOver(_, _)
SumOver(f, S) ==
    IF S = {} THEN 0
    ELSE LET x == CHOOSE x \in S : TRUE
         IN  f[x] + SumOver(f, S \ {x})

\* what customer c paid at vendor v, and how often they were there
PaidBy(c, v) ==
    LET es == customers[c].experiences
    IN  SumOver([i \in DOMAIN es |->
                   IF es[i].restaurant_id = v THEN es[i].price_paid ELSE 0], DOMAIN es)

ExperiencesOf(c, v) ==
    Cardinality({ i \in DOMAIN customers[c].experiences :
                    customers[c].experiences[i].restaurant_id = v })

RevenueIsPaid ==
    \A v \in Vendors :
       vendor[v].revenue = SumOver([c \in DOMAIN customers |-> PaidBy(c, v)], DOMAIN customers)

VisitsAreExperiences ==
    \A v \in Vendors :
       SumOver(vendor[v].customer_visit_count, DOMAIN vendor[v].customer_visit_count)
         = SumOver([c \in DOMAIN customers |-> ExperiencesOf(c, v)], DOMAIN customers)

\* the customers the two visit logs list for day d, A's before B's
VisitorsOn(d) ==
    (IF d \in DOMAIN vendor["A"].daily_customers
        THEN vendor["A"].daily_customers[d] ELSE << >>)
    \o (IF d \in DOMAIN vendor["B"].daily_customers
           THEN vendor["B"].daily_customers[d] ELSE << >>)

OncePerDay ==
    \A d \in 1..day :
       \A i, j \in DOMAIN VisitorsOn(d) : VisitorsOn(d)[i] = VisitorsOn(d)[j] => i = j

ReportedRevenue(v) ==
    SumOver([i \in DOMAIN daily_results |->
               IF v = "A" THEN daily_results[i].restaurant_a_revenue
                          ELSE daily_results[i].restaurant_b_revenue],
            DOMAIN daily_results)

\* no day's customer loop is running: between two days, or the run has ended
NoDayRunning == pc \in {"days", "done", "aborted"}

RevenueIsReported ==
    NoDayRunning => \A v \in Vendors : vendor[v].revenue = ReportedRevenue(v)

\* C28: in the repeat-customer run each vendor's revenue is the sum of
\* price_paid over the experiences at that vendor and, whenever no day is
\* running, the sum of its reported daily revenues; the sum of its visit
\* counts is the number of those experiences; and no customer is listed
\* twice for a day across the two visit logs.
C28_BookkeepingConsistent ==
    (config.engine = "repeat" /\ pc \notin {"init", "generate"}) =>
        /\ RevenueIsPaid
        /\ RevenueIsReported
        /\ VisitsAreExperiences
        /\ OncePerDay

\* ------------------------------------------------ C29 skipped customers
\* a step of run_day's customer loop in which the handler caught an exception
CustomerSkipped ==
    /\ config.engine = "run_day"
    /\ pc = "customer"
    /\ todo # << >>
    /\ cday' # None
    /\ cday'.caught # "none"

\* C29: a customer of run_day whose processing raised leaves every vendor's
\* revenue and review store as they were, and every step of run_day adds to
\* a vendor's revenue exactly when it appends a review to that vendor.
C29_SkipIsAtomic ==
    /\ [][ CustomerSkipped =>
             \A v \in Vendors :
                /\ vendor'[v].revenue = vendor[v].revenue
                /\ vendor'[v].reviews = vendor[v].reviews
                /\ vendor'[v].initial_reviews = vendor[v].initial_reviews
         ]_vars
    /\ [][ config.engine = "run_day" =>
             \A v \in Vendors :
                (vendor'[v].revenue # vendor[v].revenue)
                   <=> (Len(vendor'[v].reviews) = Len(vendor[v].reviews) + 1)
         ]_vars

\* ------------------------------------- C30 investigation shows nothing new
\* a customer of the repeat-customer or CoNF path investigated
InvestigatedSample ==
    /\ ret.op \in {"_simulate_day", "_evaluate_restaurant_for_customer"}
    /\ ret.skepticism.will_investigate

DeterministicPolicy == review_policy \notin {"recent_quality_boost", "random"}

\* the reviews fetched on investigation: the sample after the initial one
AdditionalSample == SubSeq(shown, Len(ret.initial) + 1, Len(shown))

ReviewIds(rs) == { rs[i].review_id : i \in 1..Len(rs) }

\* C30: under highest_rating, latest, newest_first and an unknown policy,
\* with SKEPTICAL_REVIEWS <= LIMITED_ATTENTION, the reviews fetched on
\* investigation are the first of the initial sample again: no review is
\* new, the number of distinct reviews seen is that of the initial sample,
\* and the Beta-Bernoulli update over the whole sample counts each of them
\* a second time.
C30_InvestigationShowsNothingNew ==
    (InvestigatedSample /\ DeterministicPolicy) =>
        LET additional == AdditionalSample
            p == positive_reviews(ret.initial) + positive_reviews(additional)
            n == Len(ret.initial) + Len(additional)
        IN  /\ additional = Take(ret.initial, Len(additional))
            /\ ReviewIds(additional) \subseteq ReviewIds(ret.initial)
            /\ Cardinality(ReviewIds(shown)) = Cardinality(ReviewIds(ret.initial))
            /\ update_belief_beta_bernoulli(CONF_PRIOR, shown)
                  = Rating(CONF_PRIOR.alpha + p,
                           CONF_PRIOR.alpha + CONF_PRIOR.beta + n)

\* C30 witness: a CoNF customer investigated a newest-first store of more
\* reviews than the attention limit and was shown the same three again
C30_Witness ==
    /\ ret.op = "_evaluate_restaurant_for_customer"
    /\ ret.skepticism.will_investigate
    /\ review_policy = "newest_first"
    /\ Len(initial_reviews) + Len(reviews) > CONF_LIMITED_ATTENTION
    /\ Len(ret.initial) = CONF_LIMITED_ATTENTION
    /\ AdditionalSample = ret.initial

\* C30 witness: a repeat customer investigated a store under a policy the
\* vendor does not know and was shown the initial sample again
C30_WitnessUnknownPolicy ==
    /\ ret.op = "_simulate_day"
    /\ ret.skepticism.will_investigate
    /\ review_policy = "most_helpful"
    /\ Len(ret.initial) = LIMITED_ATTENTION
    /\ AdditionalSample = ret.initial

====
